---- MODULE Spec2Model ----
(***************************************************************************)
(* The crawl engine of the sitemap generator (server.js): URL              *)
(* normalisation, link resolution and filtering, robots.txt policy,        *)
(* duplicate-content detection and the crawl loop of crawlWebsite.         *)
(*                                                                         *)
(* Strings are modelled structurally.  A URL string is a record            *)
(*   [kind, scheme, host, port, path, query, frag]                         *)
(* whose path is the sequence of segments of the pathname after its        *)
(* leading slash ("/" is <<"">>, "/a/" is <<"a", "">>, "//a" is            *)
(* <<"", "a">>) and whose query is a sequence of [k, v] pairs.  A string   *)
(* that the URL parser rejects is [kind |-> "garbage"], and the null       *)
(* result of the helpers is [kind |-> "null"].                             *)
(***************************************************************************)
EXTENDS Integers, Sequences, FiniteSets, TLC

\* ------------------------------------------------------------------------
\* Strings and URLs
\* ------------------------------------------------------------------------

NULL == [kind |-> "null"]

Garbage == [kind |-> "garbage"]

U(scheme, host, port, path, query, frag) ==
  [kind |-> "url", scheme |-> scheme, host |-> host, port |-> port,
   path |-> path, query |-> query, frag |-> frag]

\* String.prototype.toLowerCase on the scheme, host and agent names of the universe.
Lower(s) ==
  CASE s = "EXAMPLE.COM" -> "example.com"
    [] s = "HTTPS" -> "https"
    [] s = "Sitemap-Generator" -> "sitemap-generator"
    [] OTHER -> s

DefaultPort(scheme) == IF scheme = "http" THEN "80" ELSE "443"

\* new URL(s) succeeds
CanParse(s) == s.kind = "url"

\* new URL(s): the parser lower-cases scheme and host and drops a default port.
ParseURL(s) ==
  LET sch == Lower(s.scheme)
  IN [s EXCEPT !.scheme = sch,
               !.host = Lower(s.host),
               !.port = IF s.port = DefaultPort(sch) THEN "" ELSE s.port]

\* ------------------------------------------------------------------------
\* normalizeUrl
\* ------------------------------------------------------------------------

trackingKeys ==
  {"fbclid", "gclid", "utm_source", "utm_medium", "utm_campaign", "utm_term", "utm_content"}

\* the order String.prototype.localeCompare gives the query keys of the universe
KeyOrder == <<"a", "b", "fbclid", "gclid", "page", "utm_id", "utm_source">>

KeyRank(k) == CHOOSE i \in 1..Len(KeyOrder) : KeyOrder[i] = k

\* a[0].localeCompare(b[0]) > 0
KeyAfter(a, b) == KeyRank(a.k) > KeyRank(b.k)

RECURSIVE FilterTracking(_)
FilterTracking(q) ==
  IF q = <<>> THEN <<>>
  ELSE IF Head(q).k \in trackingKeys THEN FilterTracking(Tail(q))
  ELSE <<Head(q)>> \o FilterTracking(Tail(q))

\* insert p into the sorted sequence s after every entry that does not sort after it
RECURSIVE InsertParam(_, _)
InsertParam(s, p) ==
  IF s = <<>> THEN <<p>>
  ELSE IF KeyAfter(Head(s), p) THEN <<p>> \o s
  ELSE <<Head(s)>> \o InsertParam(Tail(s), p)

\* Array.prototype.sort with the key comparator: a stable sort
RECURSIVE SortParamsFrom(_, _)
SortParamsFrom(done, rest) ==
  IF rest = <<>> THEN done
  ELSE SortParamsFrom(InsertParam(done, Head(rest)), Tail(rest))

\* variant: the parameters are appended in the order they came in
SortParamsNone(q) == q

SortParams(q) == SortParamsFrom(<<>>, q)

\* the segments of s that are kept when runs of slashes are collapsed: every
\* empty segment but the last one disappears
RECURSIVE CollapseSlashes(_)
CollapseSlashes(p) ==
  IF Len(p) <= 1 THEN p
  ELSE IF Head(p) = "" THEN CollapseSlashes(Tail(p))
  ELSE <<Head(p)>> \o CollapseSlashes(Tail(p))

StripTrailingSlash(p) ==
  IF Len(p) > 1 /\ p[Len(p)] = "" THEN SubSeq(p, 1, Len(p) - 1) ELSE p

\* variant: the trailing slash is removed before the runs of slashes are collapsed
normalizeUrlStripFirst(u) ==
  IF ~CanParse(u) THEN NULL
  ELSE LET urlObj == ParseURL(u)
           sch == Lower(urlObj.scheme)
           port == IF (sch = "http" /\ urlObj.port = "80") \/ (sch = "https" /\ urlObj.port = "443")
                   THEN "" ELSE urlObj.port
           params == SortParams(FilterTracking(urlObj.query))
       IN U(sch, Lower(urlObj.host), port,
            CollapseSlashes(StripTrailingSlash(urlObj.path)), params, "")

normalizeUrl(u) ==
  IF ~CanParse(u) THEN NULL
  ELSE LET urlObj == ParseURL(u)
           sch == Lower(urlObj.scheme)
           port == IF (sch = "http" /\ urlObj.port = "80") \/ (sch = "https" /\ urlObj.port = "443")
                   THEN "" ELSE urlObj.port
           params == SortParams(FilterTracking(urlObj.query))
       IN U(sch, Lower(urlObj.host), port,
            StripTrailingSlash(CollapseSlashes(urlObj.path)), params, "")

\* ------------------------------------------------------------------------
\* Link resolution and filters
\* ------------------------------------------------------------------------

\* the subdomains of h in the universe
SubdomainsOf(h) == IF h = "example.com" THEN {"sub.example.com"} ELSE {}

\* variant: subdomains of the start host count as internal
isInternalLinkSuffix(link, startHost) ==
  CanParse(link) /\ ParseURL(link).host \in {startHost} \cup SubdomainsOf(startHost)

isInternalLink(link, startHost) ==
  IF CanParse(link) THEN ParseURL(link).host = startHost ELSE FALSE

\* An href attribute value: kind "abs" (an absolute URL, in url), "rel" (a
\* path-absolute reference, its path, query and fragment in url), "hash"
\* ("#..."), "javascript", "mailto", "tel", "empty" (no character but the
\* padding) and "garbage"; pad says that white space surrounds it.
Href(kind, pad, url) == [kind |-> kind, pad |-> pad, url |-> url]

AbsHref(u) == Href("abs", FALSE, u)

RelHref(path, frag) == Href("rel", FALSE, U("", "", "", path, <<>>, frag))

\* String.prototype.trim
Trim(href) == [href EXCEPT !.pad = FALSE]

\* new URL(href, base).toString()
ResolveAgainst(href, base) ==
  CASE href.kind = "abs" -> IF CanParse(href.url) THEN ParseURL(href.url) ELSE NULL
    [] href.kind = "rel" ->
         [ParseURL(base) EXCEPT !.path = href.url.path, !.query = href.url.query,
                                !.frag = href.url.frag]
    [] href.kind = "empty" -> [ParseURL(base) EXCEPT !.frag = ""]
    [] OTHER -> NULL

resolveLink(href, base) ==
  IF href.kind = "empty" /\ ~href.pad THEN NULL
  ELSE LET t == Trim(href)
       IN IF t.kind \in {"hash", "javascript", "mailto", "tel"} THEN NULL
          ELSE ResolveAgainst(t, base)

\* the strings of the universe that end in one of the resource extensions
SkippableNames == {"logo.png", "doc.pdf"}

\* variant: no extension is recognised
isSkippableNever(url) == FALSE

isSkippableResource(url) ==
  IF ~CanParse(url) THEN TRUE
  ELSE LET u == ParseURL(url)
       IN \/ u.path[Len(u.path)] \in SkippableNames
          \/ (u.query # <<>> /\ u.query[Len(u.query)].v \in SkippableNames)

\* ------------------------------------------------------------------------
\* robots.txt
\* ------------------------------------------------------------------------

\* A Disallow value: lead says that it starts with a slash, segs are the
\* segments of the rest ("" is Pat(FALSE, <<"">>), "/" is Pat(TRUE, <<"">>)).
Pat(lead, segs) == [lead |-> lead, segs |-> segs]

EmptyString == Pat(FALSE, <<"">>)

\* the pairs <<a, b>> of distinct non-empty segment names with b.startsWith(a)
ProperPrefixes == {<<"priv", "private">>}

StrStartsWith(b, a) == a = "" \/ a = b \/ <<a, b>> \in ProperPrefixes

\* pathname.startsWith(pattern), the pathname given by its segments; every
\* string starts with the empty one
PathStartsWith(path, pattern) ==
  \/ pattern = EmptyString
  \/ /\ pattern.lead
     /\ Len(pattern.segs) <= Len(path)
     /\ \A i \in 1..(Len(pattern.segs) - 1) : path[i] = pattern.segs[i]
     /\ StrStartsWith(path[Len(pattern.segs)], pattern.segs[Len(pattern.segs)])

\* variant: no pattern is passed over
isPathAllowedNoSkip(path, robots) ==
  \A pattern \in robots.disallow : ~PathStartsWith(path, pattern)

isPathAllowed(path, robots) ==
  \A pattern \in robots.disallow :
    pattern = EmptyString \/ ~PathStartsWith(path, pattern)

\* A line of robots.txt after trimming and splitting at the first colon:
\* key is the lower-cased text before it ("" for a blank line, a comment or a
\* line without colon), value the trimmed text after it.
Line(key, value) == [key |-> key, value |-> value]

\* agents[a].push(value) for every a of the sequence as
RECURSIVE PushForAgents(_, _, _)
PushForAgents(agents, as, value) ==
  IF as = <<>> THEN agents
  ELSE LET a == Head(as)
           old == IF a \in DOMAIN agents THEN agents[a] ELSE <<>>
       IN PushForAgents((a :> Append(old, value)) @@ agents, Tail(as), value)

\* The table agents is a plain object: a lower-case name that Object.prototype
\* defines reads as a value that is truthy and no array.
InheritedKeys == {"constructor", "__proto__"}

\* the loop over the lines throws: a Disallow line under an agent whose name
\* is an inherited key calls push on a value that has none
RECURSIVE ParseThrows(_, _)
ParseThrows(lines, currentAgents) ==
  IF lines = <<>> THEN FALSE
  ELSE LET line == Head(lines)
       IN CASE line.key = "user-agent" -> ParseThrows(Tail(lines), <<Lower(line.value)>>)
            [] line.key = "disallow" ->
                 \/ \E i \in DOMAIN currentAgents : currentAgents[i] \in InheritedKeys
                 \/ ParseThrows(Tail(lines), currentAgents)
            [] OTHER -> ParseThrows(Tail(lines), currentAgents)

\* the loop over the lines: the agents table it leaves
RECURSIVE ParseRobotsLines(_, _, _)
ParseRobotsLines(lines, agents, currentAgents) ==
  IF lines = <<>> THEN agents
  ELSE LET line == Head(lines)
       IN CASE line.key = "user-agent" ->
                 LET a == Lower(line.value)
                 IN ParseRobotsLines(Tail(lines),
                      IF a \in DOMAIN agents \/ a \in InheritedKeys THEN agents
                      ELSE (a :> <<>>) @@ agents, <<a>>)
            [] line.key = "disallow" ->
                 ParseRobotsLines(Tail(lines),
                   PushForAgents(agents, IF currentAgents = <<>> THEN <<"*">> ELSE currentAgents,
                                 line.value),
                   currentAgents)
            [] OTHER -> ParseRobotsLines(Tail(lines), agents, currentAgents)

Range(s) == {s[i] : i \in DOMAIN s}

\* the policy built from the agents table
RobotsResult(agents) ==
  [disallow |->
     (IF "sitemap-generator" \in DOMAIN agents THEN Range(agents["sitemap-generator"]) ELSE {})
     \cup (IF "*" \in DOMAIN agents THEN Range(agents["*"]) ELSE {})]

NoRules == [disallow |-> {}]

\* variant: the request throws only when there is no answer
AxiosThrowsNoAnswer(resp) == resp.kind \in {"network", "timeout"}

\* axiosInstance.get throws: no answer (network failure, timeout), or an answer
\* whose status the default validateStatus of axios refuses (outside 2xx)
AxiosThrows(resp) ==
  \/ resp.kind \in {"network", "timeout"}
  \/ resp.kind = "http" /\ ~(resp.status >= 200 /\ resp.status < 300)

\* The answer to the robots.txt request: kind "http" (a status, and the lines
\* of the body in text) or no answer at all. Everything is inside one try
\* whose catch returns the empty policy.
fetchRobots(resp) ==
  IF AxiosThrows(resp) \/ ParseThrows(resp.text, <<>>) THEN NoRules
  ELSE RobotsResult(ParseRobotsLines(resp.text, <<>>, <<>>))

\* ------------------------------------------------------------------------
\* The universe of one crawl: seeds, robots.txt answers, page answers
\* ------------------------------------------------------------------------

\* the page cap the endpoints pass, and the default of crawlWebsite
DefaultMaxPages == 50

\* the largest small page cap tried besides the default
MaxPagesBound == 2

Home == U("https", "example.com", "", <<"">>, <<>>, "")

\* the arguments crawlWebsite is called with
Seeds ==
  { Home,
    U("https", "example.com", "", <<"private", "">>, <<>>, "top"),
    U("https", "example.com", "", <<"logo.png">>, <<>>, ""),
    Garbage }

PageCaps == 0..MaxPagesBound \cup {DefaultMaxPages}

\* the page bodies a site can serve
Bodies == {"home", "hub", "menu", "leaf", "num"}

\* the href values of the <a href> elements of a body, in document order
Links(body) ==
  CASE body = "home" ->
         << AbsHref(U("https", "example.com", "", <<"a">>, <<>>, "")),
            AbsHref(U("https", "example.com", "", <<"a">>, <<>>, "section")),
            AbsHref(U("http", "other.com", "", <<"b">>, <<>>, "")),
            AbsHref(U("https", "example.com", "", <<"logo.png">>, <<>>, "")) >>
    [] body = "hub" ->
         << RelHref(<<"b">>, ""),
            AbsHref(U("https", "sub.example.com", "", <<"x">>, <<>>, "")),
            RelHref(<<"private", "x">>, ""),
            AbsHref(U("HTTPS", "EXAMPLE.COM", "443", <<"">>,
                      <<[k |-> "utm_source", v |-> "mail"]>>, "top")),
            Href("empty", TRUE, NULL),
            Href("hash", FALSE, NULL),
            Href("mailto", FALSE, NULL),
            RelHref(<<"b", "">>, "") >>
    [] body = "menu" ->
         << RelHref(<<"c">>, ""),
            AbsHref(U("https", "example.com", "", <<"", "private", "x">>, <<>>, "")),
            AbsHref(U("https", "example.com", "8080", <<"a">>,
                      <<[k |-> "b", v |-> "doc.pdf"], [k |-> "a", v |-> "2"]>>, "")),
            AbsHref(Garbage),
            RelHref(<<"files", "doc.pdf">>, "") >>
    [] OTHER -> << >>

\* cheerio.load(html) throws: the body is one that axios hands over as a
\* value that is no string, such as the number of the body "42"
CheerioThrows(body) == body = "num"

\* crypto.createHash('sha256').update(String(html)).digest('hex')
Sha256(html) == [sha256 |-> html]

\* what axiosInstance.get(current) can do: throw (request timeout, network
\* failure, status outside 2xx) or answer with a body
FetchFailures == {"timeout", "network", "non2xx"}

Responses ==
  [kind : FetchFailures, body : {"none"}] \cup [kind : {"ok"}, body : Bodies]

\* the answers to the robots.txt request
RobotsResponses ==
  { [kind |-> "network", status |-> 0, text |-> << >>],
    [kind |-> "http", status |-> 404, text |-> << Line("disallow", Pat(TRUE, <<"">>)) >>],
    [kind |-> "http", status |-> 203, text |-> << Line("disallow", Pat(TRUE, <<"">>)) >>],
    [kind |-> "http", status |-> 200, text |-> << Line("user-agent", "*"), Line("disallow", Pat(TRUE, <<"private">>)) >>],
    [kind |-> "http", status |-> 200, text |-> << Line("", ""), Line("disallow", Pat(TRUE, <<"">>)) >>],
    [kind |-> "http", status |-> 200, text |-> << Line("user-agent", "Sitemap-Generator"), Line("disallow", Pat(TRUE, <<"a">>)),
                                Line("user-agent", "*"), Line("disallow", EmptyString),
                                Line("user-agent", "googlebot"), Line("disallow", Pat(TRUE, <<"b">>)) >>] }

\* ------------------------------------------------------------------------
\* crawlWebsite
\* ------------------------------------------------------------------------

VARIABLES
  startUrl,       \* argument: the seed
  maxPages,       \* argument: the page cap
  pc,             \* "start", "robots" (awaiting robots.txt), "loop" (at the loop
                  \* test), "fetch" (awaiting the page), "done", "rejected"
  queue,          \* the frontier
  visited,        \* the Set visited, in insertion order
  discovered,     \* the Set discovered
  contentHashes,  \* the Map contentHashes
  robots,         \* the robots policy
  current,        \* the URL being fetched
  pushed,         \* history: every argument of queue.push, in order
  requests,       \* history: every page request, in order, and whether it was answered 2xx
  lastResp,       \* history: the outcome of the last page request
  served,         \* history: the bodies the site has answered with
  robotsResp,     \* history: how the robots.txt request was answered
  response,       \* what the route handler sends after the crawl
  debug           \* the Array debug of a call with includeDebug: true

crawlVars ==
  <<startUrl, maxPages, pc, queue, visited, discovered, contentHashes, robots, current,
    pushed, requests, lastResp, served, robotsResp, response, debug>>

\* one call of a helper function on its own
VARIABLES
  call,           \* the function called and its arguments
  out,            \* what the call returned
  out2            \* what a second call on the result returned

fnVars == <<call, out, out2>>

\* the HTTP server
VARIABLES
  hits,           \* per rate limiter and caller IP: the requests counted in the current window
  reached,        \* history: per caller IP and sitemap endpoint, the requests that came to
                  \* the endpoint's limiter in the current window
  reply           \* what the last step answered, and to which request

serverVars == <<hits, reached, reply>>

\* two calls of crawlWebsite in one process
VARIABLES
  running,        \* the call that runs: its local variables are the crawl's variables above
  parked          \* the local variables of the other call, which waits at an await

pairVars == <<running, parked>>

\* the web client: the useSitemapGenerator hook and its calls
VARIABLES
  loading,        \* the state loading of the hook
  error,          \* the state error of the hook
  data,           \* the state data of the hook
  calls           \* the calls of generateSitemap in the order they were made: where each
                  \* is in fetchWithTimeout, its timer, its signal, its response and what
                  \* fetchWithTimeout settled with

clientVars == <<loading, error, data, calls>>

nonCrawlVars == <<fnVars, serverVars, pairVars, clientVars>>

vars == <<crawlVars, nonCrawlVars>>

NoCall == [fn |-> "none"]

Pending == [kind |-> "pending"]

\* no helper is being called on its own
FnIdle ==
  /\ call = NoCall
  /\ out = Pending
  /\ out2 = Pending

NoResponse == [status |-> 0]

IPs == {"ip1", "ip2"}

Limiters == {"globalRateLimiter", "sitemapRateLimiter"}

SitemapPaths == {"/api/generate-sitemap", "/api/download-sitemap"}

NoReply ==
  [status |-> 0, by |-> "none", ip |-> "none", method |-> "none", path |-> "none",
   validated |-> "none", crawled |-> FALSE, overdue |-> FALSE, error |-> << >>]

\* the server has answered nothing and its limiters have counted nothing
ServerIdle ==
  /\ hits = [l \in Limiters |-> [ip \in IPs |-> 0]]
  /\ reached = [ip \in IPs |-> [p \in SitemapPaths |-> 0]]
  /\ reply = NoReply

NoFrame == [pc |-> "idle"]

\* there is no second call
ClientIdle ==
  /\ loading = FALSE
  /\ error = NULL
  /\ data = NULL
  /\ calls = << >>

PairIdle ==
  /\ running = 0
  /\ parked = NoFrame

NoResp == [kind |-> "none", body |-> "none"]

NoRobotsResp == [kind |-> "none", status |-> 0]

Init ==
  /\ startUrl \in Seeds
  /\ maxPages \in PageCaps
  /\ pc = "start"
  /\ queue = << >>
  /\ visited = << >>
  /\ discovered = {}
  /\ contentHashes = << >>
  /\ robots = NoRules
  /\ current = NULL
  /\ pushed = << >>
  /\ requests = << >>
  /\ lastResp = NoResp
  /\ served = {}
  /\ robotsResp = NoRobotsResp
  /\ response = NoResponse
  /\ debug = << >>
  /\ FnIdle
  /\ ServerIdle
  /\ PairIdle
  /\ ClientIdle

startHost == ParseURL(startUrl).host

\* variant: the seed is pushed without being recorded as discovered
SeedNotDiscovered(nStart) == {}

\* if (nStart) discovered.add(nStart)
SeedDiscovered(nStart) == IF nStart # NULL THEN {nStart} ELSE {}

\* the code before the first await; new URL(startUrl) throws on a seed that
\* does not parse and the call rejects
Start ==
  /\ pc = "start"
  /\ IF ~CanParse(startUrl)
     THEN /\ pc' = "rejected"
          /\ UNCHANGED <<queue, discovered, pushed>>
     ELSE /\ queue' = <<startUrl>>
          /\ pushed' = <<startUrl>>
          /\ discovered' = SeedDiscovered(normalizeUrl(startUrl))
          /\ pc' = "robots"
  /\ UNCHANGED <<startUrl, maxPages, visited, contentHashes, robots, current, requests,
                 lastResp, served, robotsResp, response, debug, nonCrawlVars>>

\* await fetchRobots(startUrl)
FetchRobots ==
  /\ pc = "robots"
  /\ \E resp \in RobotsResponses :
       /\ robots' = fetchRobots(resp)
       /\ robotsResp' = [kind |-> resp.kind, status |-> resp.status]
  /\ pc' = "loop"
  /\ UNCHANGED <<startUrl, maxPages, queue, visited, discovered, contentHashes, current,
                 pushed, requests, lastResp, served, response, debug, nonCrawlVars>>

\* variant: the cap compared with <= in place of <
LoopCondOffByOne(q, v, m) == Len(q) > 0 /\ Len(v) <= m

\* ------------------------------------------------------------------------
\* The sitemap document
\* ------------------------------------------------------------------------

\* A string is the sequence of its pieces: one piece for each of the
\* characters < > & " ' ; and one piece for a run of other characters.

\* the pathname of urlObj.toString(), from its segment i on
RECURSIVE SerializePath(_, _)
SerializePath(path, i) ==
  IF i > Len(path) THEN << >>
  ELSE (IF path[i] = "" THEN <<"/">> ELSE <<"/", path[i]>>) \o SerializePath(path, i + 1)

\* the search of urlObj.toString(), from its parameter i on
RECURSIVE SerializeQuery(_, _)
SerializeQuery(q, i) ==
  IF i > Len(q) THEN << >>
  ELSE <<q[i].k, "=", q[i].v>>
       \o (IF i = Len(q) THEN << >> ELSE <<"&">> \o SerializeQuery(q, i + 1))

\* urlObj.toString(): the string the sets and the queue hold for the URL u
Serialize(u) ==
  <<u.scheme, ":", "/", "/", u.host>>
  \o (IF u.port = "" THEN << >> ELSE <<":", u.port>>)
  \o SerializePath(u.path, 1)
  \o (IF u.query = << >> THEN << >> ELSE <<"?">> \o SerializeQuery(u.query, 1))
  \o (IF u.frag = "" THEN << >> ELSE <<"#", u.frag>>)

\* variant: the pattern of the comment above escapeXml, [<>&]
EscapeCharThreeOnly(c) ==
  CASE c = "<" -> <<"&", "lt", ";">>
    [] c = ">" -> <<"&", "gt", ";">>
    [] c = "&" -> <<"&", "amp", ";">>
    [] OTHER -> <<c>>

\* the replacement function of escapeXml; a piece the pattern does not match stays
EscapeChar(c) ==
  CASE c = "<" -> <<"&", "lt", ";">>
    [] c = ">" -> <<"&", "gt", ";">>
    [] c = "&" -> <<"&", "amp", ";">>
    [] c = "\"" -> <<"&", "quot", ";">>
    [] c = "'" -> <<"&", "apos", ";">>
    [] OTHER -> <<c>>

\* the replacements of the pieces of unsafe from piece i on
RECURSIVE EscapeFrom(_, _)
EscapeFrom(unsafe, i) ==
  IF i > Len(unsafe) THEN << >> ELSE EscapeChar(unsafe[i]) \o EscapeFrom(unsafe, i + 1)

\* unsafe.replace(/[<>&"']/g, ...)
escapeXml(unsafe) == EscapeFrom(unsafe, 1)

\* an option is the sequence of its value, empty when the option is undefined
Undefined == << >>

Opt(v) == <<v>>

\* an element the entry does not have
Absent == << >>

\* new Date().toISOString().split('T')[0]
Today == <<"2024-01-01">>

\* one <url> element: its <loc> text and the optional elements
UrlEntry(loc, changeFreq, priority, includeLastMod) ==
  LET lastmod == IF includeLastMod THEN Today ELSE << >>
  IN [loc |-> escapeXml(loc),
      lastmod |-> IF includeLastMod /\ lastmod # << >> THEN lastmod ELSE Absent,
      changefreq |-> IF changeFreq # "" THEN <<changeFreq>> ELSE Absent,
      priority |-> <<priority>>]

\* urls.map(...), from the element i on
RECURSIVE UrlEntries(_, _, _, _, _)
UrlEntries(urls, i, changeFreq, priority, includeLastMod) ==
  IF i > Len(urls) THEN << >>
  ELSE <<UrlEntry(urls[i], changeFreq, priority, includeLastMod)>>
       \o UrlEntries(urls, i + 1, changeFreq, priority, includeLastMod)

\* The document is the sequence of its <url> elements, the prolog and the
\* <urlset> tags around them being the same for every input. options holds
\* changeFreq, priority (in tenths) and includeLastMod, Undefined when left out.
generateSitemapXML(urls, options) ==
  LET changeFreq == IF options.changeFreq = Undefined THEN "weekly" ELSE options.changeFreq[1]
      priority == IF options.priority = Undefined THEN 5 ELSE options.priority[1]
      includeLastMod == IF options.includeLastMod = Undefined THEN FALSE
                        ELSE options.includeLastMod[1]
  IN UrlEntries(urls, 1, changeFreq, priority, includeLastMod)

\* the options of a request that gives none
NoOptions == [changeFreq |-> Undefined, priority |-> Undefined, includeLastMod |-> Undefined]

\* the options validation.data can hold
SitemapOptions ==
  { NoOptions,
    [changeFreq |-> Opt("daily"), priority |-> Opt(10), includeLastMod |-> Opt(TRUE)] }

\* Array.from(set): the strings of the set, in insertion order, from the
\* element i on
RECURSIVE ArrayFrom(_, _)
ArrayFrom(set, i) ==
  IF i > Len(set) THEN << >> ELSE <<Serialize(set[i])>> \o ArrayFrom(set, i + 1)

\* what crawlWebsite returns
CrawlResult ==
  [discovered |-> discovered,
   visited |-> ArrayFrom(visited, 1),
   debug |-> debug,
   stats |-> [urlsDiscovered |-> Cardinality(discovered), urlsInSitemap |-> Len(visited)]]

\* variant: the slice starts after the first element
SitemapUrlsFromSecond(v) == SubSeq(v, 2, IF Len(v) < DefaultMaxPages THEN Len(v) ELSE DefaultMaxPages)

\* visited.slice(0, 50)
SitemapUrls(v) == SubSeq(v, 1, IF Len(v) < DefaultMaxPages THEN Len(v) ELSE DefaultMaxPages)

\* What the route handler sends once await crawlWebsite(startUrl, 50, ...) has
\* resolved: the document built from the visited URLs, and the statistics.
\* The request is one that gives no options. The variable response keeps the
\* status; the result of the crawl does not change once it is returned, so
\* the payload is this function of the final state.
Payload ==
  [sitemapXML |-> generateSitemapXML(SitemapUrls(CrawlResult.visited), NoOptions),
   stats |-> CrawlResult.stats]

\* variant: the loop runs until the frontier is empty, whatever the cap
LoopCondNoCap(q, v, m) == Len(q) > 0

\* queue.length > 0 && visited.size < maxPages
LoopCond(q, v, m) == Len(q) > 0 /\ Len(v) < m

\* The loop test fails: the result is built and returned. When the caller is
\* the route handler, which passes the cap 50, the handler goes on from its
\* await and answers.
LoopExit ==
  /\ pc = "loop"
  /\ ~LoopCond(queue, visited, maxPages)
  /\ pc' = "done"
  /\ response' = IF maxPages = DefaultMaxPages THEN [status |-> 200] ELSE response
  /\ UNCHANGED <<startUrl, maxPages, queue, visited, discovered, contentHashes, robots,
                 current, pushed, requests, lastResp, served, robotsResp, debug,
                 nonCrawlVars>>

\* variant: the robots policy is not consulted
RobotsBlocksNothing(url, policy) == FALSE

\* !isPathAllowed(new URL(current).pathname, robots)
RobotsBlocks(url, policy) == ~isPathAllowed(ParseURL(url).path, policy)

\* variant: the record holds the normalized form in url
DebugRecordNormalized(url, action) == [url |-> normalizeUrl(url), action |-> action]

\* debug.push({ url, normalized, action, ... }); normalized and the extras
\* follow from url and action
DebugRecord(url, action) == [url |-> url, action |-> action]

\* variant: the frontier is a stack, the newest entry is taken
pop(q) == [value |-> q[Len(q)], rest |-> SubSeq(q, 1, Len(q) - 1)]

\* queue.shift(): the entry taken and what the array holds afterwards
shift(q) == [value |-> Head(q), rest |-> Tail(q)]

\* one pass of the loop up to the page request; new URL(current) of the robots
\* check cannot throw here, current having been normalized two lines before
Dequeue ==
  /\ pc = "loop"
  /\ LoopCond(queue, visited, maxPages)
  /\ LET cur == shift(queue).value
         normalizedCurrent == normalizeUrl(cur)
     IN /\ queue' = shift(queue).rest
        /\ IF normalizedCurrent = NULL \/ normalizedCurrent \in Range(visited)
           THEN UNCHANGED <<discovered, pc, current, debug>>
           ELSE IF isSkippableResource(cur) \/ RobotsBlocks(cur, robots)
           THEN /\ discovered' = discovered \cup {normalizedCurrent}
                /\ debug' = Append(debug, DebugRecord(cur,
                               IF isSkippableResource(cur) THEN "skipped-resource"
                               ELSE "disallowed-by-robots"))
                /\ UNCHANGED <<pc, current>>
           ELSE /\ pc' = "fetch"
                /\ current' = cur
                /\ debug' = Append(debug, DebugRecord(cur, "fetching"))
                /\ UNCHANGED discovered
  /\ UNCHANGED <<startUrl, maxPages, visited, contentHashes, robots, pushed, requests,
                 lastResp, served, robotsResp, response, nonCrawlVars>>

\* variant: links are pushed without looking them up in discovered
EnqueueAlways(n, disc) == TRUE

\* !discovered.has(n)
ShouldEnqueue(n, disc) == n \notin disc

\* the callback of $('a[href]').each on one element; st holds discovered, queue,
\* debug and the history of pushes
ExtractLink(href, base, host, st) ==
  LET resolved == resolveLink(href, base)
  IN IF resolved = NULL THEN st
     ELSE IF ~isInternalLink(resolved, host) THEN st
     ELSE IF isSkippableResource(resolved) THEN st
     ELSE LET n == normalizeUrl(resolved)
          IN IF n = NULL THEN st
             ELSE IF ShouldEnqueue(n, st.discovered)
             THEN [discovered |-> st.discovered \cup {n},
                   queue |-> Append(st.queue, resolved),
                   pushed |-> Append(st.pushed, resolved),
                   debug |-> Append(st.debug, DebugRecord(resolved, "discovered"))]
             ELSE st

RECURSIVE ExtractLinks(_, _, _, _)
ExtractLinks(hrefs, base, host, st) ==
  IF hrefs = << >> THEN st
  ELSE ExtractLinks(Tail(hrefs), base, host, ExtractLink(Head(hrefs), base, host, st))

\* visited.add(n)
SetAdd(seq, n) == IF n \in Range(seq) THEN seq ELSE Append(seq, n)

\* variant: no catch around the page request, the error leaves crawlWebsite
FetchErrorPropagates(n) ==
  /\ pc' = "rejected"
  /\ UNCHANGED <<discovered, queue, visited, contentHashes, pushed, debug>>

\* the catch block of the page request
HandleFetchError(n) ==
  /\ discovered' = discovered \cup {n}
  /\ debug' = Append(debug, DebugRecord(current, "fetch-error"))
  /\ pc' = "loop"
  /\ UNCHANGED <<queue, visited, contentHashes, pushed>>

\* the page request answers or throws, and the rest of the pass; with the
\* default validateStatus of axios a status outside 2xx is a throw, so the
\* status test after the request never sees one
FetchPage ==
  /\ pc = "fetch"
  /\ \E resp \in Responses :
       LET normalizedCurrent == normalizeUrl(current)
           hash == Sha256(resp.body)
       IN /\ lastResp' = resp
          /\ requests' = Append(requests, [url |-> current, ok |-> resp.kind = "ok"])
          /\ served' = IF resp.kind = "ok" THEN served \cup {resp.body} ELSE served
          /\ IF resp.kind # "ok"
             THEN HandleFetchError(normalizedCurrent)
             ELSE IF hash \in DOMAIN contentHashes
             THEN /\ discovered' = discovered \cup {normalizedCurrent}
                  /\ debug' = Append(debug, DebugRecord(current, "duplicate-content"))
                  /\ pc' = "loop"
                  /\ UNCHANGED <<queue, visited, contentHashes, pushed>>
             ELSE /\ contentHashes' = (hash :> normalizedCurrent) @@ contentHashes
                  /\ IF CheerioThrows(resp.body)
                     THEN /\ discovered' = discovered \cup {normalizedCurrent}
                          /\ debug' = debug \o <<DebugRecord(current, "fetched"),
                                                  DebugRecord(current, "fetch-error")>>
                          /\ pc' = "loop"
                          /\ UNCHANGED <<queue, visited, pushed>>
                     ELSE LET st == ExtractLinks(Links(resp.body), current, startHost,
                                      [discovered |-> discovered, queue |-> queue,
                                       pushed |-> pushed,
                                       debug |-> Append(debug, DebugRecord(current, "fetched"))])
                          IN /\ discovered' = st.discovered
                             /\ queue' = st.queue
                             /\ pushed' = st.pushed
                             /\ debug' = st.debug
                             /\ visited' = SetAdd(visited, normalizedCurrent)
                             /\ pc' = "loop"
  /\ current' = NULL
  /\ UNCHANGED <<startUrl, maxPages, robots, robotsResp, response, nonCrawlVars>>

Next == Start \/ FetchRobots \/ LoopExit \/ Dequeue \/ FetchPage

Spec == Init /\ [][Next]_vars

\* every await of the crawl settles: the requests answer or time out
FairSpec == Spec /\ WF_vars(Next)

\* ------------------------------------------------------------------------
\* Two calls of crawlWebsite in one process
\* ------------------------------------------------------------------------

\* Node runs one call at a time and changes call only where the running one
\* awaits or has settled. Two requests that arrive together give two calls of
\* crawlWebsite: the variables of the crawl hold the locals of the call that
\* runs, parked those of the call that waits.

\* the locals of the running call, with its histories
Frame ==
  [startUrl |-> startUrl, maxPages |-> maxPages, pc |-> pc, queue |-> queue,
   visited |-> visited, discovered |-> discovered, contentHashes |-> contentHashes,
   robots |-> robots, current |-> current, pushed |-> pushed, requests |-> requests,
   lastResp |-> lastResp, served |-> served, robotsResp |-> robotsResp,
   response |-> response, debug |-> debug]

\* the locals of a call that has not run yet
FreshFrame(seed, cap) ==
  [startUrl |-> seed, maxPages |-> cap, pc |-> "start", queue |-> << >>,
   visited |-> << >>, discovered |-> {}, contentHashes |-> << >>,
   robots |-> NoRules, current |-> NULL, pushed |-> << >>, requests |-> << >>,
   lastResp |-> NoResp, served |-> {}, robotsResp |-> NoRobotsResp,
   response |-> NoResponse, debug |-> << >>]

\* variant: discovered is one Set of the module, which every call uses
ResumedSharingDiscovered(own, other) == [own EXCEPT !.discovered = other.discovered]

\* What a call finds in its variables when it goes on after an await: own is
\* what it left there, other what the call that ran meanwhile has. visited,
\* discovered, queue, contentHashes and the axios instance are created inside
\* the call, and the helpers keep nothing between calls.
Resumed(own, other) == own

\* the places where the running call awaits, or has settled
SwitchPoints == {"robots", "fetch", "done", "rejected"}

\* the running call waits and the other one goes on
Switch ==
  /\ running # 0
  /\ pc \in SwitchPoints
  /\ parked.pc \notin {"done", "rejected"}
  /\ LET f == Resumed(parked, Frame)
     IN /\ startUrl' = f.startUrl
        /\ maxPages' = f.maxPages
        /\ pc' = f.pc
        /\ queue' = f.queue
        /\ visited' = f.visited
        /\ discovered' = f.discovered
        /\ contentHashes' = f.contentHashes
        /\ robots' = f.robots
        /\ current' = f.current
        /\ pushed' = f.pushed
        /\ requests' = f.requests
        /\ lastResp' = f.lastResp
        /\ served' = f.served
        /\ robotsResp' = f.robotsResp
        /\ response' = f.response
        /\ debug' = f.debug
  /\ parked' = Frame
  /\ running' = 3 - running
  /\ UNCHANGED <<fnVars, serverVars, clientVars>>

\* the largest page cap of the two calls
MaxPairPages == 1

\* the seeds of the two calls
PairSeeds == {Home, U("https", "example.com", "", <<"private", "">>, << >>, "top")}

\* the first call is about to run and the second one has been made
PairInit ==
  /\ \E seed \in PairSeeds, cap \in 1..MaxPairPages :
       LET f == FreshFrame(seed, cap)
       IN /\ startUrl = f.startUrl
          /\ maxPages = f.maxPages
          /\ pc = f.pc
          /\ queue = f.queue
          /\ visited = f.visited
          /\ discovered = f.discovered
          /\ contentHashes = f.contentHashes
          /\ robots = f.robots
          /\ current = f.current
          /\ pushed = f.pushed
          /\ requests = f.requests
          /\ lastResp = f.lastResp
          /\ served = f.served
          /\ robotsResp = f.robotsResp
          /\ response = f.response
          /\ debug = f.debug
  /\ running = 1
  /\ parked \in {FreshFrame(seed, cap) : seed \in PairSeeds, cap \in 1..MaxPairPages}
  /\ FnIdle
  /\ ServerIdle
  /\ ClientIdle

PairNext == Next \/ Switch

PairSpec == PairInit /\ [][PairNext]_vars

\* ------------------------------------------------------------------------
\* Validation of the request body (security.js)
\* ------------------------------------------------------------------------

\* A hostname is the sequence of its characters.
StartsWith(s, p) == Len(s) >= Len(p) /\ SubSeq(s, 1, Len(p)) = p

Digits == {"0", "1", "2", "3", "4", "5", "6", "7", "8", "9"}

\* /^(localhost|127\.0\.0\.1|192\.168\.|10\.|172\.(1[6-9]|2[0-9]|3[01]))/i
\* (the URL parser has already lowercased the hostname)
PrivateHostPattern(h) ==
  \/ StartsWith(h, <<"l", "o", "c", "a", "l", "h", "o", "s", "t">>)
  \/ StartsWith(h, <<"1", "2", "7", ".", "0", ".", "0", ".", "1">>)
  \/ StartsWith(h, <<"1", "9", "2", ".", "1", "6", "8", ".">>)
  \/ StartsWith(h, <<"1", "0", ".">>)
  \/ /\ StartsWith(h, <<"1", "7", "2", ".">>)
     /\ Len(h) >= 6
     /\ \/ h[5] = "1" /\ h[6] \in {"6", "7", "8", "9"}
        \/ h[5] = "2" /\ h[6] \in Digits
        \/ h[5] = "3" /\ h[6] \in {"0", "1"}

DisallowedProtocols == {"javascript", "data", "vbscript"}

\* a string that new URL() parses, with its protocol and its hostname
V(scheme, hostname) == [kind |-> "url", scheme |-> scheme, hostname |-> hostname]

\* the function given to .refine
UrlRefine(url) ==
  /\ CanParse(url)
  /\ url.scheme \notin DisallowedProtocols
  /\ ~PrivateHostPattern(url.hostname)

\* the fields of a request body: a missing field, a number, or a string of a
\* length class ("empty", "ok", or "long" for more than 2048 characters)
AbsentField == [type |-> "undefined"]

NumberField == [type |-> "number"]

Str(len, value) == [type |-> "string", len |-> len, value |-> value]

\* the issues of the field url, in the order of its checks
UrlIssues(f) ==
  IF f.type = "undefined" THEN <<"url: Required">>
  ELSE IF f.type # "string" THEN <<"url: Expected string, received number">>
  ELSE (IF f.len = "empty" THEN <<"url: URL is required">> ELSE << >>)
       \o (IF f.len = "long" THEN <<"url: URL must not exceed 2048 characters">> ELSE << >>)
       \o (IF ~CanParse(f.value) THEN <<"url: Invalid URL format">> ELSE << >>)
       \o (IF ~UrlRefine(f.value)
           THEN <<"url: URL scheme not allowed or hostname is private (SSRF prevention)">>
           ELSE << >>)

ChangeFreqs == {"always", "hourly", "daily", "weekly", "monthly", "yearly", "never"}

\* changeFreq is Undefined or Opt(a string)
ChangeFreqIssues(f) ==
  IF f # Undefined /\ f[1] \notin ChangeFreqs
  THEN <<"changeFreq: Invalid enum value">>
  ELSE << >>

\* priority is Undefined or Opt(a number of tenths)
PriorityIssues(f) ==
  IF f = Undefined THEN << >>
  ELSE IF f[1] < 0 THEN <<"priority: Priority must be >= 0">>
  ELSE IF f[1] > 10 THEN <<"priority: Priority must be <= 1">>
  ELSE << >>

\* .strict(): extra is whether the body has a key the schema does not name
StrictIssues(extra) ==
  IF extra THEN <<": Unrecognized key(s) in object">> ELSE << >>

JsonBody(url, changeFreq, priority, extra) ==
  [json |-> "object", url |-> url, changeFreq |-> changeFreq, priority |-> priority,
   extra |-> extra]

\* the messages of the issues, which the code joins with "; "
validateSitemapRequest(body) ==
  LET issues == UrlIssues(body.url) \o ChangeFreqIssues(body.changeFreq)
                \o PriorityIssues(body.priority) \o StrictIssues(body.extra)
  IN IF issues = << >>
     THEN [valid |-> TRUE, data |-> body, error |-> << >>]
     ELSE [valid |-> FALSE, data |-> body, error |-> issues]

\* ------------------------------------------------------------------------
\* Error responses (security.js)
\* ------------------------------------------------------------------------

\* the table responses
responses ==
  400 :> [error |-> "Bad request", statusCode |-> 400]
  @@ 401 :> [error |-> "Unauthorized", statusCode |-> 401]
  @@ 403 :> [error |-> "Forbidden", statusCode |-> 403]
  @@ 404 :> [error |-> "Not found", statusCode |-> 404]
  @@ 422 :> [error |-> "Unprocessable entity", statusCode |-> 422]
  @@ 429 :> [error |-> "Rate limit exceeded", statusCode |-> 429]
  @@ 500 :> [error |-> "Internal server error", statusCode |-> 500]
  @@ 503 :> [error |-> "Service unavailable", statusCode |-> 503]

\* what console.error is given
ErrorLog(err) == [message |-> err.message, stack |-> err.stack]

\* variant: the message of the error is handed to the caller
createSecureErrorResponseLeaky(err, statusCode) ==
  LET code == IF statusCode = Undefined THEN 500 ELSE statusCode[1]
  IN [error |-> err.message, statusCode |-> code]

\* createSecureErrorResponse(err, statusCode = 500); statusCode is Undefined
\* or Opt(a number)
createSecureErrorResponse(err, statusCode) ==
  LET code == IF statusCode = Undefined THEN 500 ELSE statusCode[1]
  IN IF code \in DOMAIN responses
     THEN responses[code]
     ELSE [error |-> "An error occurred", statusCode |-> 500]

\* ------------------------------------------------------------------------
\* The helper functions, each called on its own with arguments of its domain
\* ------------------------------------------------------------------------

\* no crawl is running
CrawlIdle ==
  /\ startUrl = Garbage
  /\ maxPages = 0
  /\ pc = "idle"
  /\ queue = << >>
  /\ visited = << >>
  /\ discovered = {}
  /\ contentHashes = << >>
  /\ robots = NoRules
  /\ current = NULL
  /\ pushed = << >>
  /\ requests = << >>
  /\ lastResp = NoResp
  /\ served = {}
  /\ robotsResp = NoRobotsResp
  /\ response = NoResponse
  /\ debug = << >>

Ret(x) == [kind |-> "ret", val |-> x]

\* all sequences over S of a length from lo to hi
SeqsUpTo(S, lo, hi) == UNION { [1..n -> S] : n \in lo..hi }

\* the longest pathname, in segments, of an argument of normalizeUrl
MaxPathLen == 3

\* the most query parameters of an argument of normalizeUrl
MaxQueryLen == 2

\* scheme, host and port as written in an argument
Origins ==
  { [scheme |-> "https", host |-> "example.com", port |-> ""],
    [scheme |-> "https", host |-> "example.com", port |-> "443"],
    [scheme |-> "HTTPS", host |-> "EXAMPLE.COM", port |-> "8080"],
    [scheme |-> "http", host |-> "example.com", port |-> "80"] }

QueryParams ==
  { [k |-> "a", v |-> "1"], [k |-> "a", v |-> "2"], [k |-> "b", v |-> "1"],
    [k |-> "utm_source", v |-> "1"], [k |-> "utm_id", v |-> "1"] }

Queries == SeqsUpTo(QueryParams, 0, MaxQueryLen)

Fragments == {"", "top"}

\* the strings normalizeUrl is called with
NormalizeInputs ==
  { U(o.scheme, o.host, o.port, path, q, f) :
      o \in Origins, path \in SeqsUpTo({"", "a"}, 1, MaxPathLen), q \in Queries, f \in Fragments }
  \cup {Garbage}

\* normalizeUrl(u)
CallNormalizeUrl ==
  /\ call.fn = "normalizeUrl"
  /\ out = Pending
  /\ out' = Ret(normalizeUrl(call.u))
  /\ UNCHANGED <<call, out2, crawlVars, serverVars, pairVars, clientVars>>

\* normalizeUrl(normalizeUrl(u)), when the first call did not return null
CallNormalizeUrlAgain ==
  /\ call.fn = "normalizeUrl"
  /\ out # Pending
  /\ out.val # NULL
  /\ out2 = Pending
  /\ out2' = Ret(normalizeUrl(out.val))
  /\ UNCHANGED <<call, out, crawlVars, serverVars, pairVars, clientVars>>

\* two strings with the same pathname, for two calls of normalizeUrl
NormalizePairs ==
  { [fn |-> "normalizeUrl twice",
     u |-> U("https", "example.com", "", <<"a">>, q1, ""),
     w |-> U(o.scheme, o.host, o.port, <<"a">>, q2, f)] :
      q1 \in Queries, q2 \in Queries, o \in Origins, f \in Fragments }

\* normalizeUrl(u) and normalizeUrl(w)
CallNormalizeUrlTwice ==
  /\ call.fn = "normalizeUrl twice"
  /\ out = Pending
  /\ out' = Ret(<<normalizeUrl(call.u), normalizeUrl(call.w)>>)
  /\ UNCHANGED <<call, out2, crawlVars, serverVars, pairVars, clientVars>>

\* the href values resolveLink is called with: every kind, bare and with
\* white space around it
HrefInputs ==
  { Href(k, pad, NULL) : k \in {"empty", "hash", "javascript", "mailto", "tel"}, pad \in BOOLEAN }
  \cup { Href("abs", pad, u) :
           pad \in BOOLEAN,
           u \in {Garbage, U("https", "example.com", "", <<"a">>, << >>, "top"),
                  U("http", "other.com", "", <<"b">>, << >>, "")} }
  \cup { Href("rel", pad, U("", "", "", path, << >>, f)) :
           pad \in BOOLEAN, path \in {<<"b">>, <<"private", "x">>}, f \in Fragments }

\* the page URLs resolveLink is given as base
BaseUrls ==
  { Home,
    U("https", "example.com", "", <<"a">>, <<[k |-> "page", v |-> "2"]>>, ""),
    U("https", "example.com", "8080", <<"a", "">>, << >>, "") }

\* resolveLink(href, base)
CallResolveLink ==
  /\ call.fn = "resolveLink"
  /\ out = Pending
  /\ out' = Ret(resolveLink(call.href, call.base))
  /\ UNCHANGED <<call, out2, crawlVars, serverVars, pairVars, clientVars>>

\* the most lines of a robots.txt body
MaxRobotsLines == 4

\* the lines of a robots.txt body: User-agent lines, Disallow lines, and a
\* line that is neither (blank, a comment, another directive)
RobotsLines ==
  { Line("user-agent", a) : a \in {"*", "Sitemap-Generator", "googlebot", "constructor"} }
  \cup { Line("disallow", Pat(TRUE, <<x>>)) : x \in {"a", "b"} }
  \cup { Line("", "") }

\* the answers to the robots.txt request of one call of fetchRobots
RobotsAnswers ==
  [kind : {"http"}, status : {200}, text : SeqsUpTo(RobotsLines, 0, MaxRobotsLines)]
  \cup [kind : {"network", "timeout"}, status : {0}, text : {<< >>}]
  \cup [kind : {"http"}, status : {404, 500}, text : SeqsUpTo(RobotsLines, 1, 1)]

\* fetchRobots(baseUrl), the request being answered by call.resp
CallFetchRobots ==
  /\ call.fn = "fetchRobots"
  /\ out = Pending
  /\ out' = Ret(fetchRobots(call.resp))
  /\ UNCHANGED <<call, out2, crawlVars, serverVars, pairVars, clientVars>>

\* the most segments of a pathname or of a Disallow value given to isPathAllowed
MaxPatternSegs == 2

SegmentNames == {"", "a", "priv", "private"}

\* the Disallow values: the empty string, and values with and without a
\* leading slash
Patterns ==
  {EmptyString}
  \cup { Pat(TRUE, segs) : segs \in SeqsUpTo(SegmentNames, 1, MaxPatternSegs) }
  \cup { Pat(FALSE, segs) : segs \in { x \in SeqsUpTo(SegmentNames, 1, MaxPatternSegs) : x[1] # "" } }

\* the policies: no rule, one rule, one rule and the empty string
Policies ==
  {NoRules} \cup { [disallow |-> {p}] : p \in Patterns }
            \cup { [disallow |-> {p, EmptyString}] : p \in Patterns }

\* isPathAllowed(path, robots)
CallIsPathAllowed ==
  /\ call.fn = "isPathAllowed"
  /\ out = Pending
  /\ out' = Ret(isPathAllowed(call.path, call.robots))
  /\ UNCHANGED <<call, out2, crawlVars, serverVars, pairVars, clientVars>>

\* the most pieces of a string given to generateSitemapXML
MaxLocLen == 3

\* the pieces of those strings: the five characters escapeXml replaces, the
\* semicolon, a run of other characters, and the run amp
Pieces == {"<", ">", "&", "\"", "'", ";", "a", "amp"}

\* the arrays generateSitemapXML is given: one string, or that string after
\* another
UrlArrays ==
  { <<t>> : t \in SeqsUpTo(Pieces, 0, MaxLocLen) }
  \cup { <<Serialize(Home), t>> : t \in SeqsUpTo(Pieces, 0, 1) }

\* generateSitemapXML(urls, options)
CallGenerateSitemapXML ==
  /\ call.fn = "generateSitemapXML"
  /\ out = Pending
  /\ out' = Ret(generateSitemapXML(call.urls, call.options))
  /\ UNCHANGED <<call, out2, crawlVars, serverVars, pairVars, clientVars>>

\* the hostnames of the urls given to validateSitemapRequest: public names and
\* addresses, loopback and private ones, and the empty hostname of a url
\* such as file:///etc/passwd
ValidationHosts ==
  { <<"e", "x", "a", "m", "p", "l", "e", ".", "c", "o", "m">>,
    <<"l", "o", "c", "a", "l", "h", "o", "s", "t">>,
    <<"1", "2", "7", ".", "0", ".", "0", ".", "1">>,
    <<"1", "2", "7", ".", "0", ".", "0", ".", "2">>,
    <<"1", "2", "7", ".", "1", ".", "2", ".", "3">>,
    <<"[", ":", ":", "1", "]">>,
    <<"1", "0", ".", "0", ".", "0", ".", "1">>,
    <<"1", "0", ".", "e", "x", "a", "m", "p", "l", "e", ".", "c", "o", "m">>,
    <<"1", "7", "2", ".", "1", "6", ".", "0", ".", "1">>,
    <<"1", "7", "2", ".", "3", "1", ".", "9", ".", "9">>,
    <<"1", "7", "2", ".", "3", "2", ".", "0", ".", "1">>,
    <<"1", "7", "2", ".", "1", "5", ".", "0", ".", "1">>,
    <<"1", "9", "2", ".", "1", "6", "8", ".", "1", ".", "1">>,
    <<"1", "9", "2", ".", "1", "6", "9", ".", "1", ".", "1">>,
    <<"8", ".", "8", ".", "8", ".", "8">>,
    <<"0", ".", "0", ".", "0", ".", "0">>,
    <<>> }

ValidationSchemes == {"http", "https", "ftp", "file", "javascript", "data", "vbscript"}

\* the bodies given to validateSitemapRequest
ValidationBodies ==
  { JsonBody(Str("ok", V(sch, h)), Undefined, Undefined, FALSE) :
      sch \in ValidationSchemes, h \in ValidationHosts }
  \cup { JsonBody(u, cf, pr, extra) :
           u \in {AbsentField, NumberField, Str("empty", Garbage), Str("ok", Garbage),
                  Str("long", V("https", <<"a">>)), Str("ok", V("https", <<"a">>))},
           cf \in {Undefined, Opt("daily"), Opt("sometimes")},
           pr \in {Undefined, Opt(0), Opt(10), Opt(11), Opt(-1)},
           extra \in BOOLEAN }

\* validateSitemapRequest(body)
CallValidateSitemapRequest ==
  /\ call.fn = "validateSitemapRequest"
  /\ out = Pending
  /\ out' = Ret(validateSitemapRequest(call.body))
  /\ UNCHANGED <<call, out2, crawlVars, serverVars, pairVars, clientVars>>

\* the errors createSecureErrorResponse is given
Errors ==
  [message : {"timeout of 5000ms exceeded", "ENOENT: /srv/app/secret.json"},
   stack : {"at crawlWebsite (server.js:300)", "at fetchRobots (server.js:190)"},
   code : {"ECONNABORTED", "ERR_INVALID_URL"}]

\* its status codes: those of the table, others, and none
StatusCodes ==
  {Undefined} \cup { Opt(n) : n \in {200, 400, 401, 403, 404, 418, 422, 429, 500, 503, 504} }

\* createSecureErrorResponse(err1, statusCode) and
\* createSecureErrorResponse(err2, statusCode), with what each call logs
CallCreateSecureErrorResponseTwice ==
  /\ call.fn = "createSecureErrorResponse twice"
  /\ out = Pending
  /\ out' = Ret([body |-> createSecureErrorResponse(call.err1, call.statusCode),
                 log |-> ErrorLog(call.err1)])
  /\ out2' = Ret([body |-> createSecureErrorResponse(call.err2, call.statusCode),
                  log |-> ErrorLog(call.err2)])
  /\ UNCHANGED <<call, crawlVars, serverVars, pairVars, clientVars>>

FnInit ==
  /\ CrawlIdle
  /\ ServerIdle
  /\ PairIdle
  /\ ClientIdle
  /\ out = Pending
  /\ out2 = Pending
  /\ \/ call \in [fn : {"normalizeUrl"}, u : NormalizeInputs]
     \/ call \in NormalizePairs
     \/ call \in [fn : {"resolveLink"}, href : HrefInputs, base : BaseUrls]
     \/ call \in [fn : {"fetchRobots"}, resp : RobotsAnswers]
     \/ call \in [fn : {"isPathAllowed"}, path : SeqsUpTo(SegmentNames, 1, MaxPatternSegs),
                   robots : Policies]
     \/ call \in [fn : {"generateSitemapXML"}, urls : UrlArrays, options : SitemapOptions]
     \/ call \in [fn : {"validateSitemapRequest"}, body : ValidationBodies]
     \/ call \in [fn : {"createSecureErrorResponse twice"}, err1 : Errors, err2 : Errors,
                   statusCode : StatusCodes]

FnNext ==
  \/ CallNormalizeUrl
  \/ CallNormalizeUrlAgain
  \/ CallNormalizeUrlTwice
  \/ CallResolveLink
  \/ CallFetchRobots
  \/ CallIsPathAllowed
  \/ CallGenerateSitemapXML
  \/ CallValidateSitemapRequest
  \/ CallCreateSecureErrorResponseTwice

FnSpec == FnInit /\ [][FnNext]_vars

\* ------------------------------------------------------------------------
\* The HTTP server: the middleware chain and the two sitemap endpoints
\* ------------------------------------------------------------------------

\* max of globalRateLimiter
GlobalMax == 100

\* max of sitemapRateLimiter
SitemapMax == 20

\* variant: the limiter rejects the request that reaches max
LimitExceededAtMax(totalHits, max) == totalHits >= max

\* express-rate-limit rejects a request whose count in the window is above max
LimitExceeded(totalHits, max) == totalHits > max

\* variant: no request is exempt from the global limiter
GlobalSkipNever(r) == FALSE

\* skip of globalRateLimiter
GlobalSkip(r) == r.path = "/" /\ r.method = "GET"

Increment(h, limiter, ip) == [h EXCEPT ![limiter][ip] = @ + 1]

Answer(r, status, by) ==
  [status |-> status, by |-> by, ip |-> r.ip, method |-> r.method, path |-> r.path,
   validated |-> "none", crawled |-> FALSE, overdue |-> FALSE, error |-> << >>]

\* variant: the handler goes on to the crawl whatever the validation says
SitemapHandlerNoReturn(r) ==
  LET validation == validateSitemapRequest(r.body)
  IN [Answer(r, 0, "crawl") EXCEPT
        !.validated = IF validation.valid THEN "valid" ELSE "invalid",
        !.crawled = TRUE]

\* the handler of either sitemap endpoint up to its await: status 0 stands
\* for no answer yet, the handler is awaiting crawlWebsite
SitemapHandler(r) ==
  LET validation == validateSitemapRequest(r.body)
  IN IF ~validation.valid
     THEN [Answer(r, 400, "validation") EXCEPT
             !.validated = "invalid", !.error = validation.error]
     ELSE [Answer(r, 0, "crawl") EXCEPT !.validated = "valid", !.crawled = TRUE]

MalformedJson == [json |-> "malformed"]

\* variant: each sitemap route has a limiter of its own
RouteHitsPerEndpoint(h, r) == reached[r.ip][r.path] + 1

\* The count the limiter of the route holds for the caller of r, r included.
\* Both routes name the one sitemapRateLimiter, whose store is keyed by the
\* caller's IP only.
RouteHits(h, r) == h.sitemapRateLimiter[r.ip]

\* what the chain of middleware and the route do with the request r
Chain(r) ==
  LET afterGlobal == IF GlobalSkip(r) THEN hits
                     ELSE Increment(hits, "globalRateLimiter", r.ip)
      afterRoute == Increment(afterGlobal, "sitemapRateLimiter", r.ip)
      Stop(h, a) == [hits |-> h, reached |-> reached, reply |-> a]
  IN IF ~GlobalSkip(r) /\ LimitExceeded(afterGlobal.globalRateLimiter[r.ip], GlobalMax)
     THEN Stop(afterGlobal, Answer(r, 429, "globalRateLimiter"))
     ELSE IF ~r.originAllowed
     THEN Stop(afterGlobal, Answer(r, 500, "cors"))
     ELSE IF r.body = MalformedJson
     THEN Stop(afterGlobal, Answer(r, 400, "express.json"))
     ELSE IF r.method = "POST" /\ r.path \in SitemapPaths
     THEN [hits |-> afterRoute,
           reached |-> [reached EXCEPT ![r.ip][r.path] = @ + 1],
           reply |-> IF LimitExceeded(RouteHits(afterRoute, r), SitemapMax)
                     THEN Answer(r, 429, "sitemapRateLimiter")
                     ELSE SitemapHandler(r)]
     ELSE IF r.method = "GET" /\ r.path = "/"
     THEN Stop(afterGlobal, Answer(r, 200, "health"))
     ELSE Stop(afterGlobal, Answer(r, 404, "router"))

\* the requests modelled beyond a limit
MaxOverLimit == 2

\* the requests modelled of the second caller
MaxOtherCaller == 1

\* the requests modelled to the download endpoint in one window
MaxDownloads == 1

ExampleCom == <<"e", "x", "a", "m", "p", "l", "e", ".", "c", "o", "m">>

Localhost == <<"l", "o", "c", "a", "l", "h", "o", "s", "t">>

ValidBody == JsonBody(Str("ok", V("https", ExampleCom)), Undefined, Undefined, FALSE)

\* bodies the validation rejects: a private host and a priority above 1, a
\* key the schema does not name
InvalidBodies ==
  { JsonBody(Str("ok", V("http", Localhost)), Undefined, Opt(20), FALSE),
    JsonBody(Str("ok", V("https", ExampleCom)), Opt("weekly"), Opt(5), TRUE) }

NoBody == JsonBody(AbsentField, Undefined, Undefined, FALSE)

Request(ip, method, path, originAllowed, body) ==
  [ip |-> ip, method |-> method, path |-> path, originAllowed |-> originAllowed,
   body |-> body]

ServerRequests ==
  { Request("ip1", "POST", p, TRUE, b) :
      p \in SitemapPaths, b \in {ValidBody, MalformedJson} \cup InvalidBodies }
  \cup { Request("ip1", "POST", "/api/generate-sitemap", FALSE, ValidBody),
         Request("ip1", "GET", "/", TRUE, NoBody),
         Request("ip1", "GET", "/", FALSE, NoBody),
         Request("ip1", "POST", "/", TRUE, NoBody),
         Request("ip1", "GET", "/other", TRUE, NoBody),
         Request("ip2", "POST", "/api/generate-sitemap", TRUE, ValidBody) }

\* the counters of the model stay within its bounds
WithinBounds(r) ==
  /\ ~GlobalSkip(r) =>
       hits.globalRateLimiter[r.ip] <
         (IF r.ip = "ip1" THEN GlobalMax + MaxOverLimit ELSE MaxOtherCaller)
  /\ r.path \in SitemapPaths =>
       hits.sitemapRateLimiter[r.ip] <
         (IF r.ip = "ip1" THEN SitemapMax + MaxOverLimit ELSE MaxOtherCaller)
  /\ r.path = "/api/download-sitemap" => reached[r.ip][r.path] < MaxDownloads

\* a request arrives and runs through the chain up to its answer or to the
\* await of the crawl
HandleRequest ==
  /\ \E r \in ServerRequests :
       /\ WithinBounds(r)
       /\ LET c == Chain(r)
          IN /\ hits' = c.hits
             /\ reached' = c.reached
             /\ reply' = c.reply
  /\ UNCHANGED <<crawlVars, fnVars, pairVars, clientVars>>

\* How the try block of a sitemap handler ends after the validation: it comes
\* to its answer, or something in it throws. crawlWebsite and fetchRobots
\* catch the error of every request they make, so no error of axios (code
\* ECONNABORTED on a timeout) leaves the crawl; what can be thrown is the
\* TypeError of new URL or an error nobody expected.
TryOutcomes ==
  { [kind |-> "returns", code |-> "none"],
    [kind |-> "throws", code |-> "ERR_INVALID_URL"],
    [kind |-> "throws", code |-> "none"] }

\* the catch block of the handlers
CatchStatus(err) == IF err.code = "ECONNABORTED" THEN 504 ELSE 500

\* the awaited crawl of the last request settles, and the handler answers
CrawlSettles ==
  /\ reply.by = "crawl"
  /\ \E outcome \in TryOutcomes :
       reply' = [reply EXCEPT
                   !.by = "handler",
                   !.status = IF outcome.kind = "returns" THEN 200 ELSE CatchStatus(outcome)]
  /\ UNCHANGED <<hits, reached, crawlVars, fnVars, pairVars, clientVars>>

\* Time passes while the handler awaits the crawl, beyond what the operation
\* as a whole is meant to take. No timer is armed for the crawl as a whole,
\* so nothing of the program runs: the step marks the request as overdue.
OperationOverdue ==
  /\ reply.by = "crawl"
  /\ ~reply.overdue
  /\ reply' = [reply EXCEPT !.overdue = TRUE]
  /\ UNCHANGED <<hits, reached, crawlVars, fnVars, pairVars, clientVars>>

\* the window of one limiter ends for one caller
WindowReset ==
  /\ \E l \in Limiters, ip \in IPs :
       /\ hits[l][ip] > 0
       /\ hits' = [hits EXCEPT ![l][ip] = 0]
       /\ reached' = IF l = "sitemapRateLimiter"
                     THEN [reached EXCEPT ![ip] = [p \in SitemapPaths |-> 0]]
                     ELSE reached
  /\ reply' = NoReply
  /\ UNCHANGED <<crawlVars, fnVars, pairVars, clientVars>>

ServerInit ==
  /\ CrawlIdle
  /\ FnIdle
  /\ ServerIdle
  /\ PairIdle
  /\ ClientIdle

ServerNext == HandleRequest \/ CrawlSettles \/ OperationOverdue \/ WindowReset

ServerSpec == ServerInit /\ [][ServerNext]_vars


\* ------------------------------------------------------------------------
\* The web client: fetchWithTimeout, generateSitemapRequest
\* (src/src/services/sitemap.service.ts) and the useSitemapGenerator hook
\* (src/src/hooks/useSitemapGenerator.ts)
\* ------------------------------------------------------------------------

ApiError(message, status) == [kind |-> "ApiError", message |-> message, status |-> status]

\* new ApiError(message): status is undefined
ApiErrorNoStatus(message) == [kind |-> "ApiError", message |-> message]

TimedOut == ApiError("Request timed out. Please try again.", 408)

InvalidFormat(status) == ApiError("Invalid response format from server", status)

NetworkError == ApiErrorNoStatus("Network error. Please check your connection and try again.")

InvalidSitemap == ApiErrorNoStatus("Server returned an invalid sitemap response")

Resolved(body) == [kind |-> "resolved", value |-> body]

\* the statuses the server answers POST /api/generate-sitemap with
ResponseStatuses == {200, 400, 429, 500}

\* response.ok
Ok(status) == status \in 200..299

\* the JSON values a body parses to: a sitemap, an object with a string
\* error, an object without one, a value that is no object
JsonBodies ==
  { [kind |-> "object", sitemapXML |-> "<urlset/>", stats |-> "stats"],
    [kind |-> "object", error |-> "Too many requests, please try again later."],
    [kind |-> "object"],
    [kind |-> "number"] }

isObject(value) == value.kind = "object"

isSitemapResponse(value) ==
  /\ isObject(value)
  /\ "stats" \in DOMAIN value
  /\ "sitemapXML" \in DOMAIN value

serverMessage(body, status) ==
  IF isObject(body) /\ "error" \in DOMAIN body
  THEN body.error
  ELSE <<"Request failed with status", status>>

\* the catch of the body's parse: an ApiError for whatever response.json()
\* rejected with; the outer catch rethrows it
JsonCatch(c) == InvalidFormat(c.httpResponse.status)

\* the calls of generateSitemap that one behaviour makes
MaxCalls == 2

\* a call at its first await: the timer is armed and fetch is awaited
NewCall ==
  [at |-> "headers", timeoutId |-> "armed", aborted |-> FALSE,
   httpResponse |-> [kind |-> "none"], settled |-> Pending]

\* the calls that have not settled
InFlight == {i \in DOMAIN calls : calls[i].at # "settled"}

\* generateSitemapRequest: what the hook's await gets from what
\* fetchWithTimeout settled with
generateSitemapRequest(outcome) ==
  IF outcome.kind = "resolved" /\ ~isSitemapResponse(outcome.value)
  THEN InvalidSitemap
  ELSE outcome

\* the hook after its await: setData on success; setData(null) and setError
\* in the catch; setLoading(false) in the finally
AfterAwait(i, outcome) ==
  LET got == generateSitemapRequest(outcome)
  IN /\ IF got.kind = "resolved"
        THEN data' = got.value /\ error' = error
        ELSE data' = NULL /\ error' = [kind |-> "string", value |-> got.message]
     /\ loading' = FALSE

\* fetchWithTimeout settles with outcome: finally clears the timer, and the
\* awaits of generateSitemapRequest and of the hook go on
Settle(i, outcome) ==
  /\ calls' = [calls EXCEPT ![i].at = "settled",
                            ![i].timeoutId = "cleared",
                            ![i].settled = outcome]
  /\ AfterAwait(i, outcome)

\* generateSitemap is called: setLoading(true), setError(null), and the call
\* goes as far as the await of fetch
GenerateSitemap ==
  /\ Len(calls) < MaxCalls
  /\ loading' = TRUE
  /\ error' = NULL
  /\ calls' = Append(calls, NewCall)
  /\ UNCHANGED <<data, crawlVars, fnVars, serverVars, pairVars>>

\* the timer of a call fires while the call waits: controller.abort()
TimerFires ==
  \E i \in InFlight :
    /\ calls[i].timeoutId = "armed"
    /\ calls' = [calls EXCEPT ![i].timeoutId = "fired", ![i].aborted = TRUE]
    /\ UNCHANGED <<loading, error, data, crawlVars, fnVars, serverVars, pairVars>>

\* fetch resolves with the response's head, and response.json() is awaited
HeadersArrive ==
  \E i \in InFlight, status \in ResponseStatuses :
    /\ calls[i].at = "headers"
    /\ ~calls[i].aborted
    /\ calls' = [calls EXCEPT ![i].at = "body",
                              ![i].httpResponse = [kind |-> "Response", status |-> status]]
    /\ UNCHANGED <<loading, error, data, crawlVars, fnVars, serverVars, pairVars>>

\* fetch rejects: with the AbortError of the abort, else with a network
\* failure; the outer catch makes the ApiError
FetchRejects ==
  \E i \in InFlight :
    /\ calls[i].at = "headers"
    /\ Settle(i, IF calls[i].aborted THEN TimedOut ELSE NetworkError)
    /\ UNCHANGED <<crawlVars, fnVars, serverVars, pairVars>>

\* response.json() resolves: a response that is not ok rejects with the
\* server's message, an ok one resolves with the body
BodyParsed ==
  \E i \in InFlight, body \in JsonBodies :
    /\ calls[i].at = "body"
    /\ ~calls[i].aborted
    /\ LET status == calls[i].httpResponse.status
       IN Settle(i, IF ~Ok(status)
                    THEN ApiError(serverMessage(body, status), status)
                    ELSE Resolved(body))
    /\ UNCHANGED <<crawlVars, fnVars, serverVars, pairVars>>

\* response.json() rejects: the body is no JSON, the connection broke, or
\* the timer aborted the read
BodyFails ==
  \E i \in InFlight :
    /\ calls[i].at = "body"
    /\ Settle(i, JsonCatch(calls[i]))
    /\ UNCHANGED <<crawlVars, fnVars, serverVars, pairVars>>

ClientInit ==
  /\ CrawlIdle
  /\ FnIdle
  /\ ServerIdle
  /\ PairIdle
  /\ ClientIdle

ClientNext ==
  \/ GenerateSitemap
  \/ TimerFires
  \/ HeadersArrive
  \/ FetchRejects
  \/ BodyParsed
  \/ BodyFails

ClientSpec == ClientInit /\ [][ClientNext]_vars

\* ------------------------------------------------------------------------
\* Properties of the crawl
\* ------------------------------------------------------------------------

PageA == U("https", "example.com", "", <<"a">>, <<>>, "")

RequestedUrls == {requests[i].url : i \in DOMAIN requests}

\* C1: Visited never holds more than maxPages URLs, and no URL is taken off
\* the frontier once Visited holds maxPages of them.
C1_VisitedWithinCap ==
  /\ [](Len(visited) <= maxPages)
  /\ [][Len(queue') < Len(queue) => Len(visited) < maxPages]_vars

\* the cap is reached while the frontier still holds entries
C1_Witness ==
  /\ pc = "loop"
  /\ maxPages >= 1
  /\ Len(visited) = maxPages
  /\ queue # << >>

\* C2: every URL of Visited is in Discovered, in every state (the state right
\* after visited.add included).
C2_VisitedSubsetDiscovered == Range(visited) \subseteq discovered

C2_Witness == Len(visited) >= 2 /\ lastResp.kind = "ok" /\ pc = "loop"

\* C3: no two URLs ever pushed onto the frontier, the seed included, have the
\* same normalized form; a URL is pushed only if its normalized form is not in
\* Discovered, and the same step adds it to Discovered.
C3_NoDuplicateFrontierEntries ==
  /\ [](\A i, j \in DOMAIN pushed :
          i # j => normalizeUrl(pushed[i]) # normalizeUrl(pushed[j]))
  /\ [][\A i \in (Len(pushed) + 1)..Len(pushed') :
          /\ normalizeUrl(pushed'[i]) \notin discovered
          /\ normalizeUrl(pushed'[i]) \in discovered']_vars

\* a page with two links of one normalized form was processed: one push
C3_Witness ==
  /\ "home" \in served
  /\ pushed = <<Home, PageA>>
  /\ pc = "done"

\* C4: the crawl terminates, and the loop ends exactly when, at its test, the
\* frontier is empty or Visited holds maxPages URLs.
C4_Termination ==
  /\ <>(pc \in {"done", "rejected"})
  /\ [][pc = "loop" => (pc' = "done" <=> (queue = << >> \/ Len(visited) >= maxPages))]_vars
  /\ [](pc = "done" => (queue = << >> \/ Len(visited) >= maxPages))

\* the loop ended on an empty frontier, below the cap, after several requests
C4_Witness ==
  /\ pc = "done"
  /\ queue = << >>
  /\ Len(visited) < maxPages
  /\ Len(requests) >= 3

C6_RobotsDisallowedNeverFetched ==
  pc \in {"loop", "fetch", "done"} =>
    \A i \in DOMAIN pushed :
      LET u == pushed[i]
      IN (u \notin Range(queue) /\ ~isPathAllowed(ParseURL(u).path, robots)) =>
           /\ normalizeUrl(u) \in discovered
           /\ normalizeUrl(u) \notin Range(visited)
           /\ u \notin RequestedUrls
           /\ current # u

\* a disallowed link was taken off the frontier after its page was visited
C6_Witness ==
  /\ pc = "done"
  /\ queue = << >>
  /\ Pat(TRUE, <<"private">>) \in robots.disallow
  /\ \E i \in DOMAIN pushed : ParseURL(pushed[i]).path = <<"private", "x">>

\* C7: a page request that fails (timeout, network failure, status outside
\* 2xx) leaves its URL in Discovered and out of Visited, the crawl does not
\* reject, and the loop goes on with the rest of the frontier.
C7_FetchFailureIsLocal ==
  /\ [][(pc = "fetch" /\ pc' # "fetch" /\ lastResp'.kind \in FetchFailures) =>
          /\ pc' = "loop"
          /\ normalizeUrl(current) \in discovered'
          /\ normalizeUrl(current) \notin Range(visited')
          /\ queue' = queue
          /\ visited' = visited]_vars
  /\ [][(pc = "loop" /\ lastResp.kind \in FetchFailures /\ queue # << >>) =>
          Len(queue') < Len(queue)]_vars
  /\ [](pc = "rejected" => requests = << >>)

\* a request failed and a later one was answered
C7_Witness ==
  /\ pc = "done"
  /\ \E i, j \in DOMAIN requests : i < j /\ ~requests[i].ok /\ requests[j].ok

\* C8: when every page answers with the same body and the seed request is
\* answered 2xx, the crawl ends with exactly one URL in Visited.
C8_IdenticalContentOneVisited ==
  (/\ pc = "done"
   /\ maxPages >= 1
   /\ requests # << >>
   /\ \A i \in DOMAIN requests : requests[i].ok
   /\ Cardinality(served) = 1)
  => Len(visited) = 1

\* C9: a crawl with maxPages = 1 whose seed request is answered 2xx ends with
\* Visited = {normalized seed} and issues no request after the seed's.
C9_CapOneVisitsSeedOnly ==
  (/\ pc = "done"
   /\ maxPages = 1
   /\ requests # << >>
   /\ requests[1].ok)
  => (visited = <<normalizeUrl(startUrl)>> /\ Len(requests) = 1)

\* C10 as stated: after the crawl of the seed whose page links to /a,
\* /a#section, http://other.com/b and /logo.png, with maxPages = 50, Discovered
\* holds 4 entries.
C10_DiscoveredCountsAllLinks ==
  (/\ pc = "done"
   /\ startUrl = Home
   /\ maxPages = DefaultMaxPages
   /\ "home" \in served
   /\ served \subseteq {"home", "leaf"})
  => Cardinality(discovered) = 4

\* C10 amended: Discovered holds the seed and /a only; the external link and
\* the link to the image are not counted.
C10_DiscoveredCountsEnqueuedLinks ==
  (startUrl = Home /\ "home" \in served /\ served \subseteq {"home", "leaf"})
  => discovered = {Home, PageA}

C10_Witness ==
  /\ pc = "done"
  /\ startUrl = Home
  /\ maxPages = DefaultMaxPages
  /\ served = {"home", "leaf"}
  /\ Len(visited) = 2

\* ------------------------------------------------------------------------
\* Properties of the sitemap document
\* ------------------------------------------------------------------------

\* the text an escaped text stands for: each entity read back as its character
RECURSIVE Unescape(_)
Unescape(t) ==
  IF t = << >> THEN << >>
  ELSE IF Len(t) >= 3 /\ t[1] = "&" /\ t[3] = ";" /\ t[2] \in {"lt", "gt", "amp", "quot", "apos"}
  THEN << CASE t[2] = "lt" -> "<" [] t[2] = "gt" -> ">" [] t[2] = "amp" -> "&"
            [] t[2] = "quot" -> "\"" [] OTHER -> "'" >>
       \o Unescape(SubSeq(t, 4, Len(t)))
  ELSE <<Head(t)>> \o Unescape(Tail(t))

\* the elements of s that satisfy Keep, in the order of s
RECURSIVE Keeping(_, _)
Keeping(s, keep) ==
  IF s = << >> THEN << >>
  ELSE (IF Head(s) \in keep THEN <<Head(s)>> ELSE << >>) \o Keeping(Tail(s), keep)

\* the normalized form of every page request, in request order
RequestedNormalized == [i \in 1..Len(requests) |-> normalizeUrl(requests[i].url)]

\* C11: the <url> entries of the document stand, one for one and in order,
\* for the URLs of Visited in the order they were added, which is a
\* subsequence of the order of the page requests, cut to maxPages.
C11_SitemapInVisitOrder ==
  response.status = 200 =>
    LET entries == Payload.sitemapXML
    IN /\ Len(entries) = (IF Len(visited) < maxPages THEN Len(visited) ELSE maxPages)
       /\ \A i \in 1..Len(entries) : Unescape(entries[i].loc) = Serialize(visited[i])
       /\ Keeping(RequestedNormalized, Range(visited)) = visited

C11_Witness ==
  /\ response.status = 200
  /\ Len(Payload.sitemapXML) >= 3
  /\ \E i \in 1..Len(visited) : Payload.sitemapXML[i].loc # Serialize(visited[i])

\* ------------------------------------------------------------------------
\* Properties of normalizeUrl
\* ------------------------------------------------------------------------

\* C12: normalizeUrl is idempotent: when normalizeUrl(u) is not null,
\* normalizing the result again returns the result.
C12_NormalizeIdempotent ==
  (call.fn = "normalizeUrl" /\ out2 # Pending) => out2.val = out.val

C12_Witness ==
  /\ call.fn = "normalizeUrl"
  /\ out2 # Pending
  /\ out.val # call.u
  /\ Len(call.u.path) = 3
  /\ Len(out.val.path) = 1
  /\ Len(call.u.query) > Len(out.val.query)

\* how often p occurs in q
Count(p, q) == Cardinality({ i \in DOMAIN q : q[i] = p })

\* q1 and q2 hold the same parameters, each as often, in any order
SameParams(q1, q2) ==
  /\ Len(q1) = Len(q2)
  /\ \A i \in DOMAIN q1 : Count(q1[i], q1) = Count(q1[i], q2)

\* the parameters of q whose key is not in keys
Without(q, keys) == Keeping(q, { p \in Range(q) : p.k \notin keys })

\* u and w differ at most in the fragment, in a default port written out,
\* in parameters whose key is in keys, and in the order of the parameters
DifferOnlyBy(u, w, keys) ==
  /\ u.scheme = w.scheme
  /\ u.host = w.host
  /\ u.path = w.path
  /\ u.port \in {w.port, ""}
  /\ w.port \in {u.port, DefaultPort(u.scheme)}
  /\ SameParams(Without(u.query, keys), Without(w.query, keys))

\* the parameters of the same key come in the same order in q1 and q2
SameOrderWithinKeys(q1, q2) ==
  \A k \in { p.k : p \in Range(q1) } :
    Keeping(q1, { p \in Range(q1) : p.k = k }) = Keeping(q2, { p \in Range(q2) : p.k = k })

\* the tracking parameters: the utm_ keys the code lists, fbclid and gclid
ListedTrackingKeys ==
  {"utm_source", "utm_medium", "utm_campaign", "utm_term", "utm_content", "fbclid", "gclid"}

C14_NonNavigableHrefIsNull ==
  (/\ call.fn = "resolveLink"
   /\ out # Pending
   /\ call.href.kind \in {"empty", "hash", "javascript", "mailto", "tel"})
  => out.val = NULL

\* ------------------------------------------------------------------------
\* Properties of the robots policy
\* ------------------------------------------------------------------------

\* a page request whose pathname starts with /private
RequestedPrivate == \E i \in DOMAIN requests : ParseURL(requests[i].url).path[1] = "private"

\* the policy is empty and the crawl goes on with every path allowed: a
\* discovered URL waits in the frontier, is being or has been requested, or is
\* a resource file
ProceedsUnrestricted ==
  /\ pc # "rejected"
  /\ robots.disallow = {}
  /\ \A u \in discovered :
       \/ \E i \in DOMAIN queue : normalizeUrl(queue[i]) = u
       \/ (current # NULL /\ normalizeUrl(current) = u)
       \/ \E i \in DOMAIN requests : normalizeUrl(requests[i].url) = u
       \/ isSkippableResource(u)

\* C15 (as stated): fetchRobots never rejects; when the robots.txt request
\* fails (network error, timeout, a status other than 200) the policy has an
\* empty disallow set and the crawl goes on with every path allowed.
C15_RobotsFailOpen ==
  (robotsResp.kind \in {"network", "timeout"} \/ (robotsResp.kind = "http" /\ robotsResp.status # 200))
  => ProceedsUnrestricted

\* C15 (amended): the same, the failing statuses being those outside 2xx.
C15_RobotsFailOpenNon2xx ==
  (\/ robotsResp.kind \in {"network", "timeout"}
   \/ (robotsResp.kind = "http" /\ (robotsResp.status < 200 \/ robotsResp.status > 299)))
  => ProceedsUnrestricted

C15_Witness ==
  /\ robotsResp.kind = "http"
  /\ robotsResp.status = 404
  /\ RequestedPrivate
  /\ pc = "done"

\* the Disallow values of lines that stand under the agent a: after a
\* User-agent line naming a (in any case) and before the next User-agent line,
\* or before every User-agent line when a is the wildcard
RECURSIVE RecordedFor(_, _, _)
RecordedFor(lines, a, cur) ==
  IF lines = << >> THEN {}
  ELSE LET line == Head(lines)
       IN CASE line.key = "user-agent" -> RecordedFor(Tail(lines), a, Lower(line.value))
            [] line.key = "disallow" ->
                 (IF cur = a THEN {line.value} ELSE {}) \cup RecordedFor(Tail(lines), a, cur)
            [] OTHER -> RecordedFor(Tail(lines), a, cur)

\* C16: for every robots.txt text, the disallow set is the union of the
\* Disallow values recorded for the agent 'sitemap-generator' and for '*':
\* rules of other agents are never in it, and the specific rules never
\* replace the wildcard rules.
C16_DisallowIsUnion ==
  (call.fn = "fetchRobots" /\ out # Pending /\ call.resp.kind = "http" /\ call.resp.status = 200)
  => out.val.disallow = RecordedFor(call.resp.text, "sitemap-generator", "*")
                        \cup RecordedFor(call.resp.text, "*", "*")

\* the characters of a segment name
Chars(name) ==
  CASE name = "a" -> <<"a">>
    [] name = "priv" -> <<"p", "r", "i", "v">>
    [] name = "private" -> <<"p", "r", "i", "v", "a", "t", "e">>
    [] OTHER -> << >>

\* the characters of a pathname, from its segment i on
RECURSIVE PathChars(_, _)
PathChars(path, i) ==
  IF i > Len(path) THEN << >> ELSE <<"/">> \o Chars(path[i]) \o PathChars(path, i + 1)

\* the characters of a Disallow value
PatternChars(pattern) ==
  IF pattern.lead THEN PathChars(pattern.segs, 1) ELSE Tail(PathChars(pattern.segs, 1))

\* the string t starts with the string s
IsPrefix(s, t) == Len(s) <= Len(t) /\ SubSeq(t, 1, Len(s)) = s

\* C17 (as stated): isPathAllowed returns false exactly when the path starts
\* with some member of the disallow set, the empty string included.
C17_BlockedIffSomePrefix ==
  (call.fn = "isPathAllowed" /\ out # Pending)
  => (out.val = FALSE <=>
        \E p \in call.robots.disallow : IsPrefix(PatternChars(p), PathChars(call.path, 1)))

\* C17 (amended): isPathAllowed returns false exactly when the path starts
\* with some member of the disallow set that is not the empty string.
C17_BlockedIffSomeNonEmptyPrefix ==
  (call.fn = "isPathAllowed" /\ out # Pending)
  => (out.val = FALSE <=>
        \E p \in call.robots.disallow :
          PatternChars(p) # << >> /\ IsPrefix(PatternChars(p), PathChars(call.path, 1)))

C17_Witness ==
  /\ call.fn = "isPathAllowed"
  /\ out # Pending
  /\ call.robots.disallow = {Pat(TRUE, <<"priv">>), EmptyString}
  /\ call.path = <<"private", "a">>
  /\ out.val = FALSE

\* ------------------------------------------------------------------------
\* Properties of escapeXml
\* ------------------------------------------------------------------------

\* the text t has none of < > " ' and each & of it starts an entity
WellEscaped(t) ==
  \A i \in DOMAIN t :
    /\ t[i] \notin {"<", ">", "\"", "'"}
    /\ t[i] = "&" => (/\ i + 2 <= Len(t)
                      /\ t[i + 1] \in {"lt", "gt", "amp", "quot", "apos"}
                      /\ t[i + 2] = ";")

\* C18: the text generateSitemapXML puts between <loc> and </loc> holds no
\* raw < > " or ', and every & in it starts one of the five entities, which
\* stand position by position for the characters of the input string.
C18_LocIsEscaped ==
  (call.fn = "generateSitemapXML" /\ out # Pending)
  => /\ Len(out.val) = Len(call.urls)
     /\ \A n \in DOMAIN out.val :
          /\ WellEscaped(out.val[n].loc)
          /\ Unescape(out.val[n].loc) = call.urls[n]

C18_Witness ==
  /\ call.fn = "generateSitemapXML"
  /\ out # Pending
  /\ call.urls = << <<"&", "amp", "'">> >>
  /\ out.val[1].loc = <<"&", "amp", ";", "amp", "&", "apos", ";">>


\* ------------------------------------------------------------------------
\* Properties of the HTTP server
\* ------------------------------------------------------------------------

\* C19: on both sitemap endpoints, a request whose body validateSitemapRequest
\* reports invalid is answered 400 with the messages of the validation, and
\* the handler does not come to its call of crawlWebsite.
C19_InvalidBodyIs400NoCrawl ==
  reply.validated = "invalid" =>
    /\ reply.path \in SitemapPaths
    /\ reply.status = 400
    /\ reply.error # << >>
    /\ \E b \in InvalidBodies : reply.error = validateSitemapRequest(b).error
    /\ ~reply.crawled
    /\ reply.by # "crawl"

C19_Witness ==
  /\ reply.validated = "invalid"
  /\ reply.path = "/api/download-sitemap"
  /\ reply.status = 400


\* the last answer was given at the limiter of the sitemap endpoints or
\* behind it, before any await
AtSitemapLimiter == reply.by \in {"sitemapRateLimiter", "validation", "crawl"}

\* the requests of that caller which have come to that limiter in its
\* current window, the answered one included: to the same endpoint, and to
\* either endpoint
ReachedSame == reached[reply.ip][reply.path]

ReachedEither ==
  reached[reply.ip]["/api/generate-sitemap"] + reached[reply.ip]["/api/download-sitemap"]

PassedToValidation == reply.validated # "none" /\ reply.status # 429

RejectedByLimiter ==
  /\ reply.status = 429
  /\ reply.by = "sitemapRateLimiter"
  /\ reply.validated = "none"
  /\ ~reply.crawled

C21_HealthCheckNeverLimited ==
  [][(reply'.method = "GET" /\ reply'.path = "/")
       => (reply'.status # 429 /\ hits' = hits)]_vars

C21_Witness ==
  /\ reply.by = "health"
  /\ reply.status = 200
  /\ reply.ip = "ip1"
  /\ hits.globalRateLimiter["ip1"] > GlobalMax


\* ------------------------------------------------------------------------
\* Properties of the validation
\* ------------------------------------------------------------------------

Validated == call.fn = "validateSitemapRequest" /\ out # Pending

\* the body has a url that the URL parser accepts
HasParsedUrl(body) == body.url.type = "string" /\ CanParse(body.url.value)

\* C22: validateSitemapRequest accepts a body only if the scheme of its url
\* is http or https.
C22_OnlyHttpSchemesAccepted ==
  (Validated /\ out.val.valid) =>
    /\ HasParsedUrl(call.body)
    /\ call.body.url.value.scheme \in {"http", "https"}


DigitValue ==
  "0" :> 0 @@ "1" :> 1 @@ "2" :> 2 @@ "3" :> 3 @@ "4" :> 4 @@ "5" :> 5 @@ "6" :> 6
  @@ "7" :> 7 @@ "8" :> 8 @@ "9" :> 9

\* the labels of a hostname: its parts between the dots
RECURSIVE LabelsFrom(_, _, _)
LabelsFrom(h, i, label) ==
  IF i > Len(h) THEN <<label>>
  ELSE IF h[i] = "." THEN <<label>> \o LabelsFrom(h, i + 1, << >>)
  ELSE LabelsFrom(h, i + 1, Append(label, h[i]))

IsNumber(label) == label # << >> /\ \A i \in 1..Len(label) : label[i] \in Digits

RECURSIVE NumberOf(_)
NumberOf(label) ==
  IF label = << >> THEN 0
  ELSE NumberOf(SubSeq(label, 1, Len(label) - 1)) * 10 + DigitValue[label[Len(label)]]

\* the hostname is an IPv4 address in dotted decimal form
IsIPv4(h) ==
  LET labels == LabelsFrom(h, 1, << >>)
  IN /\ Len(labels) = 4
     /\ \A i \in 1..4 : IsNumber(labels[i]) /\ NumberOf(labels[i]) <= 255

Octet(h, i) == NumberOf(LabelsFrom(h, 1, << >>)[i])

\* localhost, 127.0.0.0/8, ::1, 10.0.0.0/8, 172.16.0.0/12, 192.168.0.0/16
LoopbackOrPrivate(h) ==
  \/ h = Localhost
  \/ h = <<"[", ":", ":", "1", "]">>
  \/ /\ IsIPv4(h)
     /\ \/ Octet(h, 1) = 127
        \/ Octet(h, 1) = 10
        \/ Octet(h, 1) = 172 /\ Octet(h, 2) >= 16 /\ Octet(h, 2) <= 31
        \/ Octet(h, 1) = 192 /\ Octet(h, 2) = 168

\* C23: validateSitemapRequest rejects every url whose host is a loopback or
\* private address: localhost, 127.0.0.0/8, ::1, 10.0.0.0/8, 172.16.0.0/12,
\* 192.168.0.0/16.
C23_PrivateHostsRejected ==
  (Validated /\ HasParsedUrl(call.body)
     /\ LoopbackOrPrivate(call.body.url.value.hostname))
    => ~out.val.valid


\* ------------------------------------------------------------------------
\* Properties of the error responses
\* ------------------------------------------------------------------------

\* C24: for two errors and the same status code, createSecureErrorResponse
\* returns the same body, and the body has the fields error and statusCode
\* only.
C24_ErrorBodyIndependentOfError ==
  (call.fn = "createSecureErrorResponse twice" /\ out # Pending) =>
    /\ out.val.body = out2.val.body
    /\ DOMAIN out.val.body = {"error", "statusCode"}
    /\ out.val.body.error \notin
         {call.err1.message, call.err1.stack, call.err1.code,
          call.err2.message, call.err2.stack, call.err2.code}

C24_Witness ==
  /\ call.fn = "createSecureErrorResponse twice"
  /\ out # Pending
  /\ call.err1.message # call.err2.message
  /\ call.err1.stack # call.err2.stack
  /\ call.err1.code # call.err2.code
  /\ out.val.log # out2.val.log
  /\ call.statusCode = Opt(504)


\* C25: when the crawl of a request has gone on beyond the time the operation
\* as a whole is given, the sitemap endpoint answers 504, distinct from the
\* 500 of a server error.
C25_OverdueCrawlIs504 ==
  (reply.by = "handler" /\ reply.overdue) => reply.status = 504


\* ------------------------------------------------------------------------
\* Properties of the statistics
\* ------------------------------------------------------------------------

\* C26: in a successful response stats.urlsInSitemap is the number of <url>
\* entries of the document, stats.urlsDiscovered is the size of Discovered
\* at the end of the crawl, and urlsInSitemap is at most urlsDiscovered.
C26_StatsMatchDocument ==
  response.status = 200 =>
    /\ Payload.stats.urlsInSitemap = Len(Payload.sitemapXML)
    /\ Payload.stats.urlsDiscovered = Cardinality(discovered)
    /\ Payload.stats.urlsInSitemap <= Payload.stats.urlsDiscovered
    /\ Range(visited) \subseteq discovered

C26_Witness ==
  /\ response.status = 200
  /\ Payload.stats.urlsInSitemap >= 2
  /\ Payload.stats.urlsDiscovered > Payload.stats.urlsInSitemap
  /\ \E i \in 1..Len(requests) : ~requests[i].ok


\* ------------------------------------------------------------------------
\* Properties of the order of the crawl
\* ------------------------------------------------------------------------

\* the entries taken from the frontier so far, in the order they were taken
Dequeued == SubSeq(pushed, 1, Len(pushed) - Len(queue))

\* the place of the URL u in the history of pushes, 0 when it was never pushed
PushIndex(u) ==
  IF \E i \in 1..Len(pushed) : pushed[i] = u
  THEN CHOOSE i \in 1..Len(pushed) : pushed[i] = u
  ELSE 0

\* C28: the frontier is strictly FIFO: the URLs are dequeued in exactly the
\* order they were enqueued, so the URLs found on a page dequeued earlier are
\* dequeued, and requested, before those found on a page dequeued later.
C28_FrontierIsFifo ==
  /\ Len(queue) <= Len(pushed)
  /\ queue = SubSeq(pushed, Len(pushed) - Len(queue) + 1, Len(pushed))
  /\ \A i, j \in 1..Len(requests) :
       i < j => /\ PushIndex(requests[i].url) > 0
                /\ PushIndex(requests[i].url) < PushIndex(requests[j].url)
  /\ current # NULL => current = Dequeued[Len(Dequeued)]

C28_Witness ==
  /\ Len(Dequeued) >= 3
  /\ Len(queue) >= 2
  /\ Len(requests) >= 2
  /\ pc = "fetch"


\* C29: the seed is the first URL dequeued in every crawl, and its
\* normalized form is in Discovered before the robots.txt request and
\* before any page request is issued.
C29_SeedFirstAndDiscovered ==
  pc \in {"robots", "loop", "fetch", "done"} =>
    /\ normalizeUrl(startUrl) # NULL
    /\ normalizeUrl(startUrl) \in discovered
    /\ pushed # << >> /\ pushed[1] = startUrl
    /\ Dequeued # << >> => Dequeued[1] = startUrl
    /\ requests # << >> => requests[1].url = startUrl

\* the robots.txt request of a seed whose normalized form differs from it
\* has been issued and is not answered yet
C29_Witness ==
  /\ pc = "robots"
  /\ robotsResp = NoRobotsResp
  /\ requests = << >>
  /\ normalizeUrl(startUrl) # startUrl
  /\ normalizeUrl(startUrl) \in discovered


\* ------------------------------------------------------------------------
\* Properties of the resource filter
\* ------------------------------------------------------------------------

\* C30: no URL for which isSkippableResource is true is ever requested or
\* added to Visited: a dequeued skippable URL is added to Discovered and
\* skipped, and skippable links of a page are never enqueued.
C30_SkippableNeverFetchedNorVisited ==
  /\ \A i \in 1..Len(requests) : ~isSkippableResource(requests[i].url)
  /\ \A i \in 1..Len(visited) : ~isSkippableResource(visited[i])
  /\ \A i \in 1..Len(Dequeued) :
       (isSkippableResource(Dequeued[i]) /\ normalizeUrl(Dequeued[i]) # NULL)
         => normalizeUrl(Dequeued[i]) \in discovered
  /\ \A i \in 2..Len(pushed) : ~isSkippableResource(pushed[i])


\* ------------------------------------------------------------------------
\* Properties of two crawls in one process
\* ------------------------------------------------------------------------

\* the locals of the call i
FrameOf(i) == IF running = i THEN Frame ELSE parked

C32_NoUrlFetchedTwice ==
  /\ \A i, j \in 1..Len(requests) :
       i < j => normalizeUrl(requests[i].url) # normalizeUrl(requests[j].url)
  /\ \A i \in 1..Len(queue) : normalizeUrl(queue[i]) \notin Range(visited)

\* three pages have been requested, one of them the page that links to /b
\* and to /b/, which normalize to the same URL
C32_Witness ==
  /\ Len(requests) >= 3
  /\ "hub" \in served
  /\ Len(visited) >= 2
  /\ queue # << >>


\* the pathname of the URL u starts with a pattern the policy disallows
Disallowed(u, policy) == ~isPathAllowed(ParseURL(u).path, policy)

\* C33: no URL whose normalized path starts with a disallowed robots prefix
\* ever enters Visited, also when the raw frontier form of the URL differs
\* from its normalized form, as //private/x does when /private is
\* disallowed.
C33_NoDisallowedUrlVisited ==
  \A i \in 1..Len(visited) : ~Disallowed(visited[i], robots)


\* C34: at the end of every pass of the loop every canonical URL stored as a
\* value of the content-fingerprint table is in Visited, also when the link
\* extraction of the canonical page throws after its hash was recorded.
C34_CanonicalUrlsAreVisited ==
  pc \in {"loop", "done"} =>
    \A h \in DOMAIN contentHashes : contentHashes[h] \in Range(visited)


\* ------------------------------------------------------------------------
\* Properties of the debug trace
\* ------------------------------------------------------------------------

\* the url fields of the records of a trace
UrlsOf(trace) == [i \in 1..Len(trace) |-> trace[i].url]

\* the actions of the record pushed when an entry is taken from the frontier
EntryActions == {"skipped-resource", "disallowed-by-robots", "fetching"}

\* the actions of the record pushed when a page request has settled
OutcomeActions == {"fetched", "duplicate-content", "fetch-error"}

IsEntryRecord(r) == r.action \in EntryActions

IsDiscoveredRecord(r) == r.action = "discovered"

\* C31 as stated: with includeDebug the trace holds exactly one record per
\* URL dequeued from the frontier, in dequeue order.
C31_OneRecordPerDequeue == UrlsOf(debug) = Dequeued

\* C31 as amended: the trace holds, in dequeue order, one record
\* skipped-resource, disallowed-by-robots or fetching per URL dequeued; a
\* request that has settled adds records fetched, duplicate-content or
\* fetch-error for the URL last dequeued, and every link pushed adds a
\* record discovered, in the order of the pushes.
C31_OneEntryRecordPerDequeue ==
  /\ UrlsOf(SelectSeq(debug, IsEntryRecord)) = Dequeued
  /\ UrlsOf(SelectSeq(debug, IsDiscoveredRecord)) = SubSeq(pushed, 2, Len(pushed))
  /\ \A i \in 1..Len(debug) :
       debug[i].action \in OutcomeActions =>
         \E j \in 1..(i - 1) :
           /\ debug[j].action = "fetching"
           /\ debug[j].url = debug[i].url
           /\ \A k \in (j + 1)..(i - 1) : ~IsEntryRecord(debug[k])
  /\ \A i \in 1..Len(debug) :
       debug[i].action \in EntryActions \cup OutcomeActions \cup {"discovered"}

\* a trace with more records than dequeued URLs: a disallowed URL, a failed
\* request, a fetched page and the links found on it
C31_Witness ==
  /\ pc = "done"
  /\ Len(Dequeued) >= 3
  /\ Len(debug) > Len(Dequeued)
  /\ \A a \in {"disallowed-by-robots", "fetch-error", "fetched", "discovered"} :
       \E i \in 1..Len(debug) : debug[i].action = a


\* ------------------------------------------------------------------------
\* Properties of the budget of the sitemap endpoints
\* ------------------------------------------------------------------------

HandlerStatusCodes == {500, 504}

\* C36: the statusCode field of the body of an error response of a sitemap
\* endpoint equals the HTTP status of the response: for every status s the
\* handlers pass, 500 and 504, createSecureErrorResponse(err, s) returns a
\* body whose statusCode is s.
C36_BodyStatusIsHttpStatus ==
  (/\ call.fn = "createSecureErrorResponse twice"
   /\ out # Pending
   /\ call.statusCode # Undefined
   /\ call.statusCode[1] \in HandlerStatusCodes)
  => out.val.body.statusCode = call.statusCode[1]


\* ------------------------------------------------------------------------
\* Properties of the groups of robots.txt
\* ------------------------------------------------------------------------

\* the agents whose rules the crawl takes
OwnAgents == {"sitemap-generator", "*"}

\* C40: when several User-agent lines stand one after the other before a
\* Disallow line, the value is recorded for every agent of the group: with
\* one of the crawl's agents in the group the value is in the disallow set
\* that fetchRobots returns.
C40_GroupOfAgentsShareDisallow ==
  (/\ call.fn = "fetchRobots"
   /\ out # Pending
   /\ call.resp.kind = "http"
   /\ call.resp.status = 200
   /\ \A k \in 1..Len(call.resp.text) :
        call.resp.text[k].key = "user-agent"
          => Lower(call.resp.text[k].value) \notin InheritedKeys)
  => \A i \in 1..(Len(call.resp.text) - 2) :
       LET t == call.resp.text
       IN (/\ t[i].key = "user-agent"
           /\ t[i + 1].key = "user-agent"
           /\ t[i + 2].key = "disallow"
           /\ Lower(t[i].value) \in OwnAgents)
          => t[i + 2].value \in out.val.disallow


\* ------------------------------------------------------------------------
\* Properties of the web client
\* ------------------------------------------------------------------------

\* C37: in the useSitemapGenerator hook loading is true in every state in
\* which at least one call of generateSitemap is still in flight, however
\* the calls overlap.
C37_LoadingWhileInFlight == InFlight # {} => loading = TRUE

\* C38: in the useSitemapGenerator hook, whenever no call of generateSitemap
\* is in flight, data and error are not both non-null, however the calls
\* overlap and whichever of them succeed or fail.
C38_NeverDataAndError == InFlight = {} => ~(data # NULL /\ error # NULL)

\* C39: a call of fetchWithTimeout whose timer fired before it settled,
\* while it waited for the head or for the body, rejects with the ApiError of
\* status 408 'Request timed out'; every rejection is an ApiError and the
\* timer is cleared when the call has settled.
C39_TimeoutRejectsWith408 ==
  \A i \in DOMAIN calls :
    calls[i].at = "settled" =>
      /\ calls[i].aborted => calls[i].settled = TimedOut
      /\ calls[i].settled.kind \in {"resolved", "ApiError"}
      /\ calls[i].timeoutId = "cleared"

====
